---- MODULE Spec2Model ----
(***************************************************************************)
(* Upload queue engine of the ProofSnap extension (UploadService.ts) with  *)
(* the two durable stores it works on: the chrome.storage.local key        *)
(* upload_queue (StorageService.ts) and the IndexedDB asset store.         *)
(*                                                                         *)
(* Every async method is cut at its awaits: one action per synchronous     *)
(* stretch of code.  chrome.storage.local serves its calls in issue order:  *)
(* a set is applied, and a get reads, in the step that issues it, and the  *)
(* caller resumes in a later step; an IndexedDB or network call takes      *)
(* effect in the step in which the awaiting code resumes.                  *)
(***************************************************************************)
EXTENDS Integers, Sequences, FiniteSets, TLC

\* ---------------------------------------------------------------- bounds
IdOrder == <<"a", "b">>         \* the ids of the captured assets, in key order
Ids == {IdOrder[i] : i \in 1..Len(IdOrder)}
MaxOps == 2                 \* calls of the engine's public methods and restarts
MaxCalls == 2               \* public calls suspended at their await
MaxBatch == 2               \* length of an addMultipleToQueue argument list

\* ---------------------------------------------------------------- state
VARIABLES
    uploadQueue,    \* UploadService.uploadQueue: ids of the queued Asset objects
    isUploading,    \* UploadService.isUploading (busy flag)
    isPaused,       \* UploadService.isPaused
    assets,         \* IndexedDB asset store: id -> record, or Absent
    upload_queue,   \* chrome.storage.local key upload_queue: the persisted ID list
    drain,          \* the processQueue invocation that is past its guard
    restore,        \* the restoreQueue invocation started by the constructor
    calls,          \* public calls at their await: op, the ids appended (removed), flag
    ev,             \* which public call returned in the last step, if any
    log,            \* history: ids in the order appended, started, recorded uploaded
    ops,            \* number of public calls and restarts so far
    insufficient_credits_dismissed,
                    \* chrome.storage.local key insufficient_credits_dismissed
    showInsufficientCreditsNotification,
                    \* PopupApp state: the insufficient-credits notification is shown
    eval,           \* the call of a pure function under check: arguments, result
    user_settings,  \* chrome.storage.local key user_settings: JSON text, as tokens
    requests,       \* service worker: the CAPTURE_SCREENSHOT and UPLOAD_ASSET
                    \* messages received, each with its handler's position,
                    \* the settlement of its promise and the responses sent
    captures,       \* service worker: the captures in progress or over (a
                    \* handleScreenshotCapture in visible mode, or a
                    \* handleSelectionComplete), each at its await
    pendingSelectionResolve,
                    \* service worker global: the request whose promise the
                    \* stored resolve callback settles, or Null
    pendingSelectionReject,
                    \* service worker global: the same for the reject callback
    timers,         \* the requests whose 60-second timer is armed
    overlayActive,  \* the tab's window.__proofSnapSelectionActive
    authToken       \* the user is authenticated (in memory or stored token)

popupVars == <<insufficient_credits_dismissed, showInsufficientCreditsNotification>>
workerVars == <<requests, captures, pendingSelectionResolve,
                pendingSelectionReject, timers, overlayActive, authToken>>
auxVars == <<eval, user_settings, workerVars>>
vars == <<uploadQueue, isUploading, isPaused, assets, upload_queue, drain,
          restore, calls, ev, log, ops, popupVars, auxVars>>

\* No pure function is under check
NoEval == [f |-> "none"]

\* ------------------------------------------------------------- settings
\* The fields of StoredSettings the model keeps (three of the boolean
\* ones), in the order of DEFAULT_SETTINGS, and their defaults
SettingsFields == <<"autoUpload", "includeLocation", "includeTimestamp">>
DEFAULT_SETTINGS ==
    [autoUpload |-> TRUE, includeLocation |-> FALSE, includeTimestamp |-> TRUE]

\* A JSON text is a sequence of tokens: braces, commas and members
\* "key":literal, the literal being true or false.
Literal(v) == IF v THEN "true" ELSE "false"
Value(lit) == lit = "true"
LBrace == [t |-> "{", k |-> "", lit |-> ""]
RBrace == [t |-> "}", k |-> "", lit |-> ""]
Comma == [t |-> ",", k |-> "", lit |-> ""]
Member(k, v) == [t |-> "member", k |-> k, lit |-> Literal(v)]

\* JSON.stringify(settings): the own properties in insertion order
RECURSIVE stringifyMembers(_, _)
stringifyMembers(settings, order) ==
    IF order = <<>> THEN <<>>
    ELSE LET rest == stringifyMembers(settings, Tail(order)) IN
         IF Head(order) \in DOMAIN settings
         THEN <<Member(Head(order), settings[Head(order)])>>
                \o (IF rest = <<>> THEN <<>> ELSE <<Comma>> \o rest)
         ELSE rest
JSON_stringify(settings) ==
    <<LBrace>> \o stringifyMembers(settings, SettingsFields) \o <<RBrace>>

\* JSON.parse(text): the object, or a SyntaxError when the text is not
\* `{`, members separated by commas, `}`.
RECURSIVE parseMembers(_, _)
parseMembers(tokens, object) ==
    IF tokens = <<>> \/ Head(tokens).t # "member" THEN [threw |-> TRUE, value |-> object]
    ELSE LET m == Head(tokens)
             o == [f \in DOMAIN object \cup {m.k} |->
                      IF f = m.k THEN Value(m.lit) ELSE object[f]] IN
         IF Len(tokens) >= 2 /\ tokens[2] = Comma
         THEN parseMembers(Tail(Tail(tokens)), o)
         ELSE IF Tail(tokens) = <<RBrace>> THEN [threw |-> FALSE, value |-> o]
         ELSE [threw |-> TRUE, value |-> o]
EmptyObject == [f \in {} |-> TRUE]
JSON_parse(text) ==
    IF text = <<>> \/ Head(text) # LBrace THEN [threw |-> TRUE, value |-> EmptyObject]
    ELSE IF Tail(text) = <<RBrace>> THEN [threw |-> FALSE, value |-> EmptyObject]
    ELSE parseMembers(Tail(text), EmptyObject)

\* { ...defaults, ...saved }
Spread(defaults, saved) ==
    [f \in DOMAIN defaults \cup DOMAIN saved |->
        IF f \in DOMAIN saved THEN saved[f] ELSE defaults[f]]

\* The key is not set (or holds the empty string)
NoText == <<>>

\* getSettings returning what was saved, without the defaults
getSettingsNoMerge(stored) ==
    IF stored # NoText
    THEN LET saved == JSON_parse(stored) IN
         [threw |-> saved.threw, settings |-> saved.value]
    ELSE [threw |-> FALSE, settings |-> DEFAULT_SETTINGS]

\* StorageService.getSettings on the text stored under user_settings: the
\* settings it resolves to, or threw when JSON.parse raises
getSettings(stored) ==
    IF stored # NoText
    THEN LET saved == JSON_parse(stored) IN
         [threw |-> saved.threw,
          settings |-> IF saved.threw THEN DEFAULT_SETTINGS
                       ELSE Spread(DEFAULT_SETTINGS, saved.value)]
    ELSE [threw |-> FALSE, settings |-> DEFAULT_SETTINGS]

\* null, for the two callback globals of the service worker
Null == 0

\* The service worker has received no message and no selection is under way
WorkerIdle ==
    /\ requests = <<>>
    /\ captures = <<>>
    /\ pendingSelectionResolve = Null
    /\ pendingSelectionReject = Null
    /\ timers = {}
    /\ overlayActive = FALSE
    /\ authToken = FALSE

\* StorageService.init has stored the defaults
AuxInit ==
    /\ eval = NoEval
    /\ user_settings = JSON_stringify(DEFAULT_SETTINGS)
    /\ WorkerIdle

Absent == [status |-> "absent", error |-> FALSE, errorType |-> "none"]
Draft == [status |-> "draft", error |-> FALSE, errorType |-> "none"]

NoDrain == [pc |-> "idle", asset |-> "none", errorType |-> "none"]
NoRestore == [pc |-> "done", ids |-> <<>>, i |-> 0, got |-> <<>>]
\* restoreQueue as the constructor leaves it: the read of the ID list issued
\* (stored is the upload_queue key at that moment), its result not yet received
NewRestore(stored) == [pc |-> "getIds", ids |-> stored, i |-> 0, got |-> <<>>]
NoEvent == "none"

\* The history is kept in the runs that need it and left off in the others.
LogOff == [on |-> FALSE, enq |-> <<>>, started |-> <<>>, uploaded |-> <<>>,
           closed |-> 0]
LogOn == [on |-> TRUE, enq |-> <<>>, started |-> <<>>, uploaded |-> <<>>,
          closed |-> 0]
Log(e, s, u) ==
    log' = IF log.on
           THEN [log EXCEPT !.enq = @ \o e, !.started = @ \o s,
                            !.uploaded = @ \o u]
           ELSE log

Range(s) == {s[i] : i \in 1..Len(s)}

\* uploadQueue.filter(a => a.id !== assetId)
RECURSIVE Filter(_, _)
Filter(s, id) ==
    IF s = <<>> THEN <<>>
    ELSE IF Head(s) = id THEN Filter(Tail(s), id)
         ELSE <<Head(s)>> \o Filter(Tail(s), id)

\* ------------------------------------------------------- remote errors
\* Strings are sequences of characters, so that toLowerCase and includes are
\* computed.
UpperCase == <<"A", "B", "C", "D", "E", "F", "G", "H", "I", "J", "K", "L", "M",
               "N", "O", "P", "Q", "R", "S", "T", "U", "V", "W", "X", "Y", "Z">>
LowerCase == <<"a", "b", "c", "d", "e", "f", "g", "h", "i", "j", "k", "l", "m",
               "n", "o", "p", "q", "r", "s", "t", "u", "v", "w", "x", "y", "z">>

\* String.prototype.toLowerCase
toLowerCase(str) ==
    [i \in 1..Len(str) |->
        IF \E k \in 1..26 : UpperCase[k] = str[i]
        THEN LowerCase[CHOOSE k \in 1..26 : UpperCase[k] = str[i]]
        ELSE str[i]]

\* String.prototype.includes
includes(str, part) ==
    \E i \in 1..(Len(str) - Len(part) + 1) :
        SubSeq(str, i, i + Len(part) - 1) = part

\* The words the messages of the errors are made of
Word ==
    [Insufficient |-> <<"I", "n", "s", "u", "f", "f", "i", "c", "i", "e", "n", "t">>,
     insufficient |-> <<"i", "n", "s", "u", "f", "f", "i", "c", "i", "e", "n", "t">>,
     INSUFFICIENT |-> <<"I", "N", "S", "U", "F", "F", "I", "C", "I", "E", "N", "T">>,
     funds |-> <<"f", "u", "n", "d", "s">>,
     Balance |-> <<"B", "a", "l", "a", "n", "c", "e">>,
     CREDIT |-> <<"C", "R", "E", "D", "I", "T">>,
     refund |-> <<"r", "e", "f", "u", "n", "d">>,
     payment |-> <<"p", "a", "y", "m", "e", "n", "t">>,
     sufficient |-> <<"s", "u", "f", "f", "i", "c", "i", "e", "n", "t">>]
MessageWords == {Word[w] : w \in DOMAIN Word}

\* The keywords of isInsufficientBalanceError
Keyword ==
    [insufficient |-> <<"i", "n", "s", "u", "f", "f", "i", "c", "i", "e", "n", "t">>,
     fund |-> <<"f", "u", "n", "d">>,
     balance |-> <<"b", "a", "l", "a", "n", "c", "e">>,
     credit |-> <<"c", "r", "e", "d", "i", "t">>]

\* One word, or two words with a space between them
Phrase(w1, w2) == w1 \o <<" ">> \o w2

\* error?.message is a string (possibly empty) or is not there
Undefined == <<"undefined">>

\* An error thrown by apiClient.postWithAuth: its structured type
\* (error.data.error.type) and its message.
RemoteErrors ==
    { [type |-> "asset_commit_insufficient_fund", message |-> Undefined],
      [type |-> "other", message |-> Phrase(Word.Insufficient, Word.CREDIT)],
      [type |-> "other", message |-> Word.insufficient],
      [type |-> "other", message |-> Word.payment] }

\* The error IndexedDB raises for an update of a record that does not exist.
StoreError == [type |-> "other", message |-> Word.payment]

\* isInsufficientBalanceError comparing the message as it is
isInsufficientBalanceErrorCaseSensitive(error) ==
    \/ error.type = "asset_commit_insufficient_fund"
    \/ LET message == IF error.message = Undefined THEN <<>>
                       ELSE error.message IN
        /\ includes(message, Keyword.insufficient)
        /\ \/ includes(message, Keyword.fund)
           \/ includes(message, Keyword.balance)
           \/ includes(message, Keyword.credit)

isInsufficientBalanceError(error) ==
    \/ error.type = "asset_commit_insufficient_fund"
    \/ LET message == IF error.message = Undefined THEN <<>>
                       ELSE toLowerCase(error.message) IN
        /\ includes(message, Keyword.insufficient)
        /\ \/ includes(message, Keyword.fund)
           \/ includes(message, Keyword.balance)
           \/ includes(message, Keyword.credit)

\* ------------------------------------------------------------ saveQueue
\* saveQueue writing the list without its newest id
saveQueueStale(queue) == SubSeq(queue, 1, Len(queue) - 1)

\* uploadQueue.map(asset => asset.id), handed to setUploadQueueIds
saveQueue(queue) == queue

\* ---------------------------------------------------------- processQueue
\* processQueue taking the newest asset (pop) instead of the oldest (shift)
processQueueLifo(q, u, p, d) ==
    IF u \/ p \/ Len(q) = 0
    THEN [q |-> q, u |-> u, d |-> d, s |-> <<>>]
    ELSE [q |-> SubSeq(q, 1, Len(q) - 1), u |-> TRUE,
          d |-> [pc |-> "updateUploading", asset |-> q[Len(q)], errorType |-> "none"],
          s |-> <<q[Len(q)]>>]

\* processQueue without the isUploading test of its guard
processQueueNoBusyCheck(q, u, p, d) ==
    IF p \/ Len(q) = 0
    THEN [q |-> q, u |-> u, d |-> d, s |-> <<>>]
    ELSE [q |-> Tail(q), u |-> TRUE,
          d |-> [pc |-> "updateUploading", asset |-> Head(q), errorType |-> "none"],
          s |-> <<Head(q)>>]

\* processQueue without the isPaused test of its guard
processQueueNoPauseCheck(q, u, p, d) ==
    IF u \/ Len(q) = 0
    THEN [q |-> q, u |-> u, d |-> d, s |-> <<>>]
    ELSE [q |-> Tail(q), u |-> TRUE,
          d |-> [pc |-> "updateUploading", asset |-> Head(q), errorType |-> "none"],
          s |-> <<Head(q)>>]

\* The synchronous head of processQueue, up to the first await inside
\* uploadAsset: guard, busy flag, shift.  q, u, p, d are the queue, busy flag,
\* pause flag and drain task as the caller left them; s is the asset whose
\* drain step starts, if one does.
processQueue(q, u, p, d) ==
    IF u \/ p \/ Len(q) = 0
    THEN [q |-> q, u |-> u, d |-> d, s |-> <<>>]
    ELSE [q |-> Tail(q), u |-> TRUE,
          d |-> [pc |-> "updateUploading", asset |-> Head(q), errorType |-> "none"],
          s |-> <<Head(q)>>]

\* --------------------------------------------------------------- setPaused
\* setPaused that only assigns the flag
setPausedNoResume(paused, q, u, d) == [q |-> q, u |-> u, d |-> d, s |-> <<>>]

\* setPaused(paused): the flag is set by the caller of this operator; when
\* unpausing, processQueue() follows.
setPaused(paused, q, u, d) ==
    IF paused THEN [q |-> q, u |-> u, d |-> d, s |-> <<>>]
    ELSE processQueue(q, u, FALSE, d)

SetPaused(paused) ==
    /\ ops < MaxOps
    /\ ops' = ops + 1
    /\ LET r == setPaused(paused, uploadQueue, isUploading, drain) IN
        /\ isPaused' = paused
        /\ uploadQueue' = r.q
        /\ isUploading' = r.u
        /\ drain' = r.d
        /\ Log(<<>>, r.s, <<>>)
    /\ ev' = "setPaused"
    /\ UNCHANGED <<auxVars, popupVars, assets, upload_queue, restore, calls>>

\* ------------------------------------------------- maybeUnpauseForManualRetry
\* The pause flag after maybeUnpauseForManualRetry(isManualRetry); the
\* processQueue() of its setPaused(false) is the one the caller makes next.
\* maybeUnpauseForManualRetry clearing the flag for every enqueue
maybeUnpauseForEveryEnqueue(isManualRetry, paused) == FALSE

maybeUnpauseForManualRetry(isManualRetry, paused) ==
    IF isManualRetry /\ paused THEN FALSE ELSE paused

\* --------------------------------------------------------------- addToQueue
\* addToQueue without the test for an id that is already queued
AddToQueueNoDedupe(id, isManualRetry) ==
    /\ ops < MaxOps
    /\ assets[id] # Absent
    /\ ops' = ops + 1
    /\ Len(calls) < MaxCalls
    /\ uploadQueue' = Append(uploadQueue, id)
    /\ upload_queue' = saveQueue(uploadQueue')
    /\ calls' = Append(calls, [op |-> "addToQueue", ids |-> <<id>>,
                               manual |-> isManualRetry])
    /\ Log(<<id>>, <<>>, <<>>)
    /\ ev' = NoEvent
    /\ UNCHANGED <<auxVars, popupVars, isUploading, isPaused, assets, drain, restore>>

\* addToQueue up to its await (or its early return).  The caller holds the
\* Asset object: it has just stored it (capture) or read it (UPLOAD_ASSET).
addToQueue(id, isManualRetry) ==
    /\ IF id \in Range(uploadQueue)
       THEN /\ ev' = "addToQueue:duplicate"
            /\ UNCHANGED <<uploadQueue, upload_queue, calls, log>>
       ELSE /\ Len(calls) < MaxCalls
            /\ uploadQueue' = Append(uploadQueue, id)
            /\ upload_queue' = saveQueue(uploadQueue')
            /\ calls' = Append(calls, [op |-> "addToQueue", ids |-> <<id>>,
                                       manual |-> isManualRetry])
            /\ Log(<<id>>, <<>>, <<>>)
            /\ ev' = NoEvent
    /\ UNCHANGED <<popupVars, isUploading, isPaused, assets, drain, restore>>

\* addToQueue called on the engine alone, with an asset of the store
AddToQueue(id, isManualRetry) ==
    /\ ops < MaxOps
    /\ assets[id] # Absent
    /\ ops' = ops + 1
    /\ addToQueue(id, isManualRetry)
    /\ UNCHANGED auxVars

\* addToQueue or addMultipleToQueue after `await this.saveQueue()`: unpause on
\* manual retry, processQueue(), return.
afterSaveQueue(op) ==
    /\ calls # <<>>
    /\ Head(calls).op = op
    /\ LET c == Head(calls)
           p == maybeUnpauseForManualRetry(c.manual, isPaused)
           r == processQueue(uploadQueue, isUploading, p, drain) IN
        /\ isPaused' = p
        /\ uploadQueue' = r.q
        /\ isUploading' = r.u
        /\ drain' = r.d
        /\ Log(<<>>, r.s, <<>>)
    /\ ev' = op
    /\ calls' = Tail(calls)
    /\ UNCHANGED <<popupVars, assets, upload_queue, restore, ops>>

\* The same on the engine alone
enqueueReturn(op) ==
    /\ afterSaveQueue(op)
    /\ UNCHANGED auxVars

AddToQueueReturn == enqueueReturn("addToQueue")

\* ------------------------------------------------------- addMultipleToQueue
\* The loop of addMultipleToQueue: push every asset whose id is not yet queued.
\* The loop of addMultipleToQueue testing each id against the queue as it was
\* before the call
pushAllAgainstOldQueue(queue, batch) ==
    queue \o SelectSeq(batch, LAMBDA id : id \notin Range(queue))

RECURSIVE pushAll(_, _)
pushAll(queue, batch) ==
    IF batch = <<>> THEN queue
    ELSE pushAll(IF Head(batch) \in Range(queue) THEN queue
                 ELSE Append(queue, Head(batch)),
                 Tail(batch))

\* Argument lists of addMultipleToQueue: assets the caller holds, duplicates allowed
Batches ==
    UNION {[1..n -> {id \in Ids : assets[id] # Absent}] : n \in 0..MaxBatch}

\* addMultipleToQueue up to its await, or to its return when nothing was added
addMultipleToQueue(batch, isManualRetry) ==
    LET queue == pushAll(uploadQueue, batch)
        addedCount == Len(queue) - Len(uploadQueue) IN
    /\ uploadQueue' = queue
    /\ IF addedCount > 0
       THEN /\ Len(calls) < MaxCalls
            /\ upload_queue' = saveQueue(queue)
            /\ calls' = Append(calls, [op |-> "addMultipleToQueue",
                                       ids |-> SubSeq(queue, Len(uploadQueue) + 1,
                                                      Len(queue)),
                                       manual |-> isManualRetry])
            /\ Log(SubSeq(queue, Len(uploadQueue) + 1, Len(queue)), <<>>, <<>>)
            /\ ev' = NoEvent
       ELSE /\ ev' = "addMultipleToQueue:nothingAdded"
            /\ UNCHANGED <<upload_queue, calls, log>>
    /\ UNCHANGED <<auxVars, popupVars, isUploading, isPaused, assets, drain, restore>>

AddMultipleToQueue(batch, isManualRetry) ==
    /\ ops < MaxOps
    /\ ops' = ops + 1
    /\ addMultipleToQueue(batch, isManualRetry)

AddMultipleToQueueReturn == enqueueReturn("addMultipleToQueue")

\* ------------------------------------------------------- retryFailedUploads
\* getAllAssets() in key order, filtered to status failed
RECURSIVE failedAssets(_)
failedAssets(order) ==
    IF order = <<>> THEN <<>>
    ELSE (IF assets[Head(order)].status = "failed" THEN <<Head(order)>> ELSE <<>>)
         \o failedAssets(Tail(order))

\* retryFailedUploads from the resolution of getAllAssets on
RetryFailedUploads ==
    /\ ops < MaxOps
    /\ ops' = ops + 1
    /\ IF Len(failedAssets(IdOrder)) > 0
       THEN addMultipleToQueue(failedAssets(IdOrder), TRUE)
       ELSE /\ ev' = NoEvent
            /\ UNCHANGED <<auxVars, popupVars, uploadQueue, isUploading, isPaused,
                           assets, upload_queue, drain, restore, calls, log>>

\* ---------------------------------------------------------- removeFromQueue
\* removeFromQueue up to its await
RemoveFromQueue(id) ==
    /\ ops < MaxOps
    /\ ops' = ops + 1
    /\ Len(calls) < MaxCalls
    /\ uploadQueue' = Filter(uploadQueue, id)
    /\ upload_queue' = saveQueue(uploadQueue')
    /\ calls' = Append(calls, [op |-> "removeFromQueue", ids |-> <<id>>,
                               manual |-> FALSE])
    /\ ev' = NoEvent
    /\ UNCHANGED <<auxVars, popupVars, isUploading, isPaused, assets, drain, restore, log>>

RemoveFromQueueReturn ==
    /\ calls # <<>>
    /\ Head(calls).op = "removeFromQueue"
    /\ ev' = "removeFromQueue"
    /\ calls' = Tail(calls)
    /\ UNCHANGED <<auxVars, popupVars, uploadQueue, isUploading, isPaused, assets, upload_queue,
                   drain, restore, log, ops>>

\* ------------------------------------------------------- the drain step
\* handleUploadError without the setPaused(true) of its balance branch
handleUploadErrorNoPause(asset, error, paused) ==
    IF isInsufficientBalanceError(error)
    THEN [p |-> paused,
          d |-> [pc |-> "clearDismissed", asset |-> asset,
                 errorType |-> "insufficient_credits"]]
    ELSE [p |-> paused,
          d |-> [pc |-> "updateFailed", asset |-> asset, errorType |-> "none"]]

\* handleUploadError calling setPaused(true) for every error
handleUploadErrorPauseAll(asset, error, paused) ==
    IF isInsufficientBalanceError(error)
    THEN [p |-> TRUE,
          d |-> [pc |-> "clearDismissed", asset |-> asset,
                 errorType |-> "insufficient_credits"]]
    ELSE [p |-> TRUE,
          d |-> [pc |-> "updateFailed", asset |-> asset, errorType |-> "none"]]

\* handleUploadError up to its first await: classify, pause on balance
\* exhaustion.  Gives the pause flag and the drain task's next position.
handleUploadError(asset, error, paused) ==
    IF isInsufficientBalanceError(error)
    THEN [p |-> TRUE,
          d |-> [pc |-> "clearDismissed", asset |-> asset,
                 errorType |-> "insufficient_credits"]]
    ELSE [p |-> paused,
          d |-> [pc |-> "updateFailed", asset |-> asset, errorType |-> "none"]]

\* The records assetStorage.updateAsset(id, {status, metadata}) leaves
Uploading == [status |-> "uploading", error |-> FALSE, errorType |-> "none"]
Uploaded == [status |-> "uploaded", error |-> FALSE, errorType |-> "none"]
\* The failed record written without the errorType of the classification
FailedUntagged(errorType) == [status |-> "failed", error |-> TRUE, errorType |-> "none"]

Failed(errorType) == [status |-> "failed", error |-> TRUE, errorType |-> errorType]

\* updateAssetStatusToUploading writing the metadata as the asset carries it
updateAssetStatusToUploadingKeepError(asset) ==
    [status |-> "uploading", error |-> asset.error, errorType |-> asset.errorType]

\* The record updateAssetStatusToUploading(asset) writes: status uploading and
\* the asset's metadata after `delete metadata.error` and `delete
\* metadata.errorType`, each done when the field is set.  asset is the Asset
\* object the queue holds, with the metadata of the record it was read from.
updateAssetStatusToUploading(asset) ==
    [status |-> "uploading",
     error |-> IF asset.error THEN FALSE ELSE asset.error,
     errorType |-> IF asset.errorType # "none" THEN "none" ELSE asset.errorType]

\* assetStorage.updateAsset(id, updates) when it does not throw: an update
\* of a record that is not in the store changes nothing.
updateAsset(store, id, record) ==
    IF store[id] = Absent THEN store ELSE [store EXCEPT ![id] = record]

\* emitProgress({assetId, progress, status}) of a drain step: the
\* UPLOAD_PROGRESS message handed to chrome.runtime.sendMessage and to the
\* asset's progress callback, as the step's event (the asset is the drain's)
emitProgress(status, progress) ==
    CASE status = "uploading" /\ progress = 0 -> "UPLOAD_PROGRESS(uploading, 0)"
      [] status = "uploaded" /\ progress = 1 -> "UPLOAD_PROGRESS(uploaded, 1)"
      [] status = "failed" /\ progress = 0 -> "UPLOAD_PROGRESS(failed, 0)"

\* emitCompletion(asset.id): the UPLOAD_COMPLETE message and the completion
\* callbacks, as the step's event
emitCompletion == "UPLOAD_COMPLETE"

\* handleUploadSuccess emitting the completion before it deletes the record
DrainUpdateUploadedOkCompletionFirst ==
    /\ drain.pc = "updateUploaded"
    /\ assets' = updateAsset(assets, drain.asset, Uploaded)
    /\ drain' = [drain EXCEPT !.pc = "delete"]
    /\ Log(<<>>, <<>>, <<drain.asset>>)
    /\ ev' = emitCompletion
    /\ UNCHANGED <<auxVars, popupVars, uploadQueue, isUploading, isPaused, upload_queue, restore,
                   calls, ops>>

\* updateAssetStatusToUploading resumes from `await updateAsset`: progress 0,
\* the simulation timer, the form data; the POST is issued.
DrainUpdateUploadingOk ==
    /\ drain.pc = "updateUploading"
    /\ assets' = updateAsset(assets, drain.asset,
                             updateAssetStatusToUploading(assets[drain.asset]))
    /\ drain' = [drain EXCEPT !.pc = "post"]
    /\ ev' = emitProgress("uploading", 0)
    /\ UNCHANGED <<auxVars, popupVars, uploadQueue, isUploading, isPaused, upload_queue, restore,
                   calls, log, ops>>

\* updateAsset throws for a record that is not in the store; processQueue
\* catches it and enters handleUploadError.
DrainUpdateUploadingThrow ==
    /\ drain.pc = "updateUploading"
    /\ assets[drain.asset] = Absent
    /\ LET h == handleUploadError(drain.asset, StoreError, isPaused) IN
        /\ isPaused' = h.p
        /\ drain' = h.d
    /\ ev' = NoEvent
    /\ UNCHANGED <<auxVars, popupVars, uploadQueue, isUploading, assets, upload_queue, restore,
                   calls, log, ops>>

DrainUpdateUploading == DrainUpdateUploadingOk \/ DrainUpdateUploadingThrow

\* uploadAsset resumes from `await apiClient.postWithAuth` with a result:
\* handleUploadSuccess issues updateAsset(uploaded).
DrainPostSuccess ==
    /\ drain.pc = "post"
    /\ drain' = [drain EXCEPT !.pc = "updateUploaded"]
    /\ ev' = NoEvent
    /\ UNCHANGED <<auxVars, popupVars, uploadQueue, isUploading, isPaused, assets, upload_queue,
                   restore, calls, log, ops>>

\* handleUploadError leaving the dismissal flag as it is
clearInsufficientCreditsKeep(flag) == flag

\* StorageService.clearInsufficientCreditsNotificationDismissed:
\* chrome.storage.local.remove('insufficient_credits_dismissed'), after which
\* hasInsufficientCreditsNotificationDismissed() is false
clearInsufficientCreditsNotificationDismissed(flag) == FALSE

\* postWithAuth (or the form data) throws: rethrown to processQueue's catch,
\* which enters handleUploadError; on a balance error it issues the removal
\* of the dismissal flag and awaits it.
DrainPostError ==
    /\ drain.pc = "post"
    /\ \E error \in RemoteErrors :
         LET h == handleUploadError(drain.asset, error, isPaused) IN
           /\ isPaused' = h.p
           /\ drain' = h.d
           /\ insufficient_credits_dismissed' =
                 IF isInsufficientBalanceError(error)
                 THEN clearInsufficientCreditsNotificationDismissed(
                          insufficient_credits_dismissed)
                 ELSE insufficient_credits_dismissed
    /\ ev' = NoEvent
    /\ UNCHANGED <<auxVars, showInsufficientCreditsNotification, uploadQueue, isUploading,
                   assets, upload_queue, restore, calls, log, ops>>

DrainPost == DrainPostSuccess \/ DrainPostError

\* handleUploadSuccess resumes from `await updateAsset(uploaded)`: progress
\* (uploaded, 1); deleteAsset is issued.
DrainUpdateUploadedOk ==
    /\ drain.pc = "updateUploaded"
    /\ assets' = updateAsset(assets, drain.asset, Uploaded)
    /\ drain' = [drain EXCEPT !.pc = "delete"]
    /\ Log(<<>>, <<>>, <<drain.asset>>)
    /\ ev' = emitProgress("uploaded", 1)
    /\ UNCHANGED <<auxVars, popupVars, uploadQueue, isUploading, isPaused, upload_queue, restore,
                   calls, ops>>

DrainUpdateUploadedThrow ==
    /\ drain.pc = "updateUploaded"
    /\ assets[drain.asset] = Absent
    /\ LET h == handleUploadError(drain.asset, StoreError, isPaused) IN
        /\ isPaused' = h.p
        /\ drain' = h.d
    /\ ev' = NoEvent
    /\ UNCHANGED <<auxVars, popupVars, uploadQueue, isUploading, assets, upload_queue, restore,
                   calls, log, ops>>

DrainUpdateUploaded == DrainUpdateUploadedOk \/ DrainUpdateUploadedThrow

\* deleteAsset takes effect in the asset store
DrainDelete ==
    /\ drain.pc = "delete"
    /\ assets' = [assets EXCEPT ![drain.asset] = Absent]
    /\ drain' = [drain EXCEPT !.pc = "saveQueue"]
    /\ ev' = emitCompletion
    /\ UNCHANGED <<auxVars, popupVars, uploadQueue, isUploading, isPaused, upload_queue, restore,
                   calls, log, ops>>

\* handleUploadError resumes from
\* `await clearInsufficientCreditsNotificationDismissed()`: updateAsset(failed)
\* is issued.
DrainClearDismissed ==
    /\ drain.pc = "clearDismissed"
    /\ drain' = [drain EXCEPT !.pc = "updateFailed"]
    /\ ev' = NoEvent
    /\ UNCHANGED <<auxVars, popupVars, uploadQueue, isUploading, isPaused, assets, upload_queue,
                   restore, calls, log, ops>>

\* updateAsset(failed) takes effect in the asset store
DrainUpdateFailedOk ==
    /\ drain.pc = "updateFailed"
    /\ assets' = updateAsset(assets, drain.asset, Failed(drain.errorType))
    /\ drain' = [drain EXCEPT !.pc = "saveQueue"]
    /\ ev' = emitProgress("failed", 0)
    /\ UNCHANGED <<auxVars, popupVars, uploadQueue, isUploading, isPaused, upload_queue, restore,
                   calls, log, ops>>

\* updateAsset(failed) throws: handleUploadError and processQueue are left by
\* the exception, before saveQueue and before the busy flag is cleared.
DrainUpdateFailedThrow ==
    /\ drain.pc = "updateFailed"
    /\ assets[drain.asset] = Absent
    /\ drain' = [drain EXCEPT !.pc = "thrown"]
    /\ ev' = NoEvent
    /\ UNCHANGED <<auxVars, popupVars, uploadQueue, isUploading, isPaused, assets, upload_queue,
                   restore, calls, log, ops>>

DrainUpdateFailed == DrainUpdateFailedOk \/ DrainUpdateFailedThrow

\* The outcome is recorded: handleUploadSuccess (completion event) or
\* handleUploadError (failure progress event) returns into processQueue, which
\* issues saveQueue.
DrainSaveQueue ==
    /\ drain.pc = "saveQueue"
    /\ upload_queue' = saveQueue(uploadQueue)
    /\ drain' = [drain EXCEPT !.pc = "saved"]
    /\ ev' = NoEvent
    /\ UNCHANGED <<auxVars, popupVars, uploadQueue, isUploading, isPaused, assets, restore, calls,
                   log, ops>>

\* processQueue resumes from `await this.saveQueue()`: clear the busy flag,
\* call processQueue() again.
DrainFinish ==
    /\ drain.pc = "saved"
    /\ LET r == processQueue(uploadQueue, FALSE, isPaused, NoDrain) IN
        /\ uploadQueue' = r.q
        /\ isUploading' = r.u
        /\ drain' = r.d
        /\ Log(<<>>, r.s, <<>>)
    /\ ev' = NoEvent
    /\ UNCHANGED <<auxVars, popupVars, isPaused, assets, upload_queue, restore, calls, ops>>

\* ------------------------------------------------------------- restoreQueue
\* StorageService.getUploadQueueIds: the list the upload_queue key decodes to
\* (the empty list when the key is not set)
getUploadQueueIds(stored) == stored

\* restoreQueue resumes from `await getUploadQueueIds()`; with a non-empty
\* list the first getAsset is issued.  ids is the list as read, i the index of
\* the id being looked up, got the assets found so far.
RestoreGetIds ==
    /\ restore.pc = "getIds"
    /\ LET queueIds == getUploadQueueIds(restore.ids) IN
        restore' = IF Len(queueIds) > 0
                   THEN [pc |-> "getAsset", ids |-> queueIds, i |-> 1, got |-> <<>>]
                   ELSE NoRestore
    /\ ev' = NoEvent
    /\ UNCHANGED <<auxVars, popupVars, uploadQueue, isUploading, isPaused, assets, upload_queue,
                   drain, calls, log, ops>>

\* The loop body of restoreQueue pushing whatever getAsset(id) resolved to
restoreAssetsKeepAll(got, id) == Append(got, id)

\* The loop body of restoreQueue after getAsset(id) resolved:
\* if (asset) assets.push(asset)
restoreAssets(got, id) ==
    IF assets[id] # Absent THEN Append(got, id) ELSE got

\* restoreQueue resumes from `await getAsset(id)`; after the last id it
\* assigns the queue and calls processQueue().
RestoreGetAsset ==
    /\ restore.pc = "getAsset"
    /\ LET got == restoreAssets(restore.got, restore.ids[restore.i]) IN
        IF restore.i < Len(restore.ids)
        THEN /\ restore' = [restore EXCEPT !.i = restore.i + 1, !.got = got]
             /\ UNCHANGED <<uploadQueue, isUploading, drain, log>>
        ELSE LET r == processQueue(got, isUploading, isPaused, drain) IN
             /\ restore' = NoRestore
             /\ uploadQueue' = r.q
             /\ isUploading' = r.u
             /\ drain' = r.d
             /\ Log(<<>>, r.s, <<>>)
    /\ ev' = NoEvent
    /\ UNCHANGED <<auxVars, popupVars, isPaused, assets, upload_queue, calls, ops>>

\* ------------------------------------------------------------------ restart
\* A restart under which the pause flag survives
RestartKeepPaused ==
    /\ ops < MaxOps
    /\ ops' = ops + 1
    /\ uploadQueue' = <<>>
    /\ isUploading' = FALSE
    /\ isPaused' = isPaused
    /\ drain' = NoDrain
    /\ calls' = <<>>
    /\ restore' = NewRestore(upload_queue)
    /\ ev' = NoEvent
    /\ UNCHANGED <<auxVars, popupVars, assets, upload_queue, log>>

\* The background worker is stopped and started again: a new UploadService is
\* constructed (fields at their initial values, restoreQueue called); what the
\* old instance had in flight is gone, the two stores are kept.
Restart ==
    /\ ops < MaxOps
    /\ ops' = ops + 1
    /\ uploadQueue' = <<>>
    /\ isUploading' = FALSE
    /\ isPaused' = FALSE
    /\ drain' = NoDrain
    /\ calls' = <<>>
    /\ restore' = NewRestore(upload_queue)
    /\ ev' = NoEvent
    /\ UNCHANGED <<auxVars, popupVars, assets, upload_queue, log>>

\* ------------------------------------------------------------ specification
\* A newly constructed engine (restoreQueue called, not yet resumed) over a
\* store of drafts captured with auto-upload off and an empty ID list.
Init ==
    /\ uploadQueue = <<>>
    /\ isUploading = FALSE
    /\ isPaused = FALSE
    /\ assets = [id \in Ids |-> Draft]
    /\ upload_queue = <<>>
    /\ drain = NoDrain
    /\ restore = NewRestore(upload_queue)
    /\ calls = <<>>
    /\ ev = NoEvent
    /\ log = LogOff
    /\ ops = 0
    /\ insufficient_credits_dismissed = FALSE
    /\ showInsufficientCreditsNotification = FALSE
    /\ AuxInit

Next ==
    \/ \E id \in Ids, m \in BOOLEAN : AddToQueue(id, m)
    \/ AddToQueueReturn
    \/ \E batch \in Batches, m \in BOOLEAN : AddMultipleToQueue(batch, m)
    \/ AddMultipleToQueueReturn
    \/ RetryFailedUploads
    \/ \E id \in Ids : RemoveFromQueue(id)
    \/ RemoveFromQueueReturn
    \/ \E p \in BOOLEAN : SetPaused(p)
    \/ DrainUpdateUploading
    \/ DrainPost
    \/ DrainUpdateUploaded
    \/ DrainDelete
    \/ DrainClearDismissed
    \/ DrainUpdateFailed
    \/ DrainSaveQueue
    \/ DrainFinish
    \/ RestoreGetIds
    \/ RestoreGetAsset
    \/ Restart

Spec == Init /\ [][Next]_vars

\* Enqueues and successful drain steps only, on an engine whose start-up
\* restoration is over: no failure, no pause, no removal, no restart.
InitFifo ==
    /\ uploadQueue = <<>>
    /\ isUploading = FALSE
    /\ isPaused = FALSE
    /\ assets = [id \in Ids |-> Draft]
    /\ upload_queue = <<>>
    /\ drain = NoDrain
    /\ restore = NoRestore
    /\ calls = <<>>
    /\ ev = NoEvent
    /\ log = LogOn
    /\ ops = 0
    /\ insufficient_credits_dismissed = FALSE
    /\ showInsufficientCreditsNotification = FALSE
    /\ AuxInit

NextFifo ==
    \/ \E id \in Ids, m \in BOOLEAN : AddToQueue(id, m)
    \/ AddToQueueReturn
    \/ \E batch \in Batches, m \in BOOLEAN : AddMultipleToQueue(batch, m)
    \/ AddMultipleToQueueReturn
    \/ DrainUpdateUploadingOk
    \/ DrainPostSuccess
    \/ DrainUpdateUploadedOk
    \/ DrainDelete
    \/ DrainSaveQueue
    \/ DrainFinish

SpecFifo == InitFifo /\ [][NextFifo]_vars

\* The ID lists an earlier run of the worker left in chrome.storage.local
PersistedAtStart == {<<IdOrder[1]>>, IdOrder}

\* A worker start over the stores of an earlier run that was stopped after it
\* had enqueued and before a drain step had recorded anything: the ID list
\* names drafts that are in the asset store.
InitRecovery ==
    /\ uploadQueue = <<>>
    /\ isUploading = FALSE
    /\ isPaused = FALSE
    /\ assets = [id \in Ids |-> Draft]
    /\ upload_queue \in PersistedAtStart
    /\ drain = NoDrain
    /\ restore = NewRestore(upload_queue)
    /\ calls = <<>>
    /\ ev = NoEvent
    /\ log = LogOff
    /\ ops = 0
    /\ insufficient_credits_dismissed = FALSE
    /\ showInsufficientCreditsNotification = FALSE
    /\ AuxInit

SpecRecovery == InitRecovery /\ [][Next]_vars

\* Spec with the history of appends, drain starts and uploads kept
InitHistory ==
    /\ uploadQueue = <<>>
    /\ isUploading = FALSE
    /\ isPaused = FALSE
    /\ assets = [id \in Ids |-> Draft]
    /\ upload_queue = <<>>
    /\ drain = NoDrain
    /\ restore = NewRestore(upload_queue)
    /\ calls = <<>>
    /\ ev = NoEvent
    /\ log = LogOn
    /\ ops = 0
    /\ insufficient_credits_dismissed = FALSE
    /\ showInsufficientCreditsNotification = FALSE
    /\ AuxInit

SpecHistory == InitHistory /\ [][Next]_vars

\* One engine instance that is never stopped, scheduled fairly: a
\* continuation whose awaited call has settled is run (the event loop), and
\* every call to a store or to the remote service settles.
DrainStep ==
    \/ DrainUpdateUploading
    \/ DrainPost
    \/ DrainUpdateUploaded
    \/ DrainDelete
    \/ DrainClearDismissed
    \/ DrainUpdateFailed
    \/ DrainSaveQueue
    \/ DrainFinish

CallReturn == AddToQueueReturn \/ AddMultipleToQueueReturn \/ RemoveFromQueueReturn

RestoreStep == RestoreGetIds \/ RestoreGetAsset

NextLive ==
    \/ \E id \in Ids, m \in BOOLEAN : AddToQueue(id, m)
    \/ \E batch \in Batches, m \in BOOLEAN : AddMultipleToQueue(batch, m)
    \/ RetryFailedUploads
    \/ \E id \in Ids : RemoveFromQueue(id)
    \/ \E p \in BOOLEAN : SetPaused(p)
    \/ DrainStep
    \/ CallReturn
    \/ RestoreStep

SpecLive ==
    /\ InitRecovery
    /\ [][NextLive]_vars
    /\ WF_vars(DrainStep)
    /\ WF_vars(CallReturn)
    /\ WF_vars(RestoreStep)

\* ------------------------------------------------------------ the popup
\* PopupApp.checkCreditStatus(currentAssets), called with the assets the
\* popup has just read from the asset store: it returns when the
\* notification is shown already; otherwise, when some asset failed for
\* insufficient credits, it reads the dismissal flag and shows the
\* notification if the flag is not set.
hasCreditError ==
    \E id \in Ids :
        assets[id].status = "failed" /\ assets[id].errorType = "insufficient_credits"

hasInsufficientCreditsNotificationDismissed == insufficient_credits_dismissed = TRUE

CheckCreditStatus ==
    /\ ~showInsufficientCreditsNotification
    /\ hasCreditError
    /\ ~hasInsufficientCreditsNotificationDismissed
    /\ showInsufficientCreditsNotification' = TRUE
    /\ ev' = NoEvent
    /\ UNCHANGED <<auxVars, insufficient_credits_dismissed, uploadQueue, isUploading,
                   isPaused, assets, upload_queue, drain, restore, calls, log,
                   ops>>

\* PopupApp.handleCloseNotification, the onClose of the notification
HandleCloseNotification ==
    /\ showInsufficientCreditsNotification
    /\ showInsufficientCreditsNotification' = FALSE
    /\ insufficient_credits_dismissed' = TRUE
    /\ log' = IF log.on THEN [log EXCEPT !.closed = @ + 1] ELSE log
    /\ ev' = NoEvent
    /\ UNCHANGED <<auxVars, uploadQueue, isUploading, isPaused, assets, upload_queue,
                   drain, restore, calls, ops>>

\* The engine and the popup, with the history kept
NextPopup ==
    \/ Next
    \/ CheckCreditStatus
    \/ HandleCloseNotification

SpecPopup == InitHistory /\ [][NextPopup]_vars

\* ------------------------------------------- the classification alone
\* isInsufficientBalanceError applied to one error: its structured type is
\* the balance one, another one, or not there; its message is not there, is
\* empty, or is made of up to MaxWords words.
MaxWords == 2
RECURSIVE Join(_)
Join(ws) ==
    IF Len(ws) = 1 THEN ws[1] ELSE Phrase(ws[1], Join(Tail(ws)))
Messages ==
    {Undefined, <<>>}
        \cup {Join(ws) : ws \in UNION {[1..n -> MessageWords] : n \in 1..MaxWords}}
ClassifyErrors ==
    [type : {"asset_commit_insufficient_fund", "other", "undefined"},
     message : Messages]

EngineIdle ==
    /\ uploadQueue = <<>>
    /\ isUploading = FALSE
    /\ isPaused = FALSE
    /\ assets = [id \in Ids |-> Draft]
    /\ upload_queue = <<>>
    /\ drain = NoDrain
    /\ restore = NoRestore
    /\ calls = <<>>
    /\ ev = NoEvent
    /\ log = LogOff
    /\ ops = 0
    /\ insufficient_credits_dismissed = FALSE
    /\ showInsufficientCreditsNotification = FALSE
    /\ WorkerIdle

engineVars == <<uploadQueue, isUploading, isPaused, assets, upload_queue, drain,
                restore, calls, ev, log, ops, popupVars>>

InitClassify ==
    /\ EngineIdle
    /\ user_settings = JSON_stringify(DEFAULT_SETTINGS)
    /\ \E error \in ClassifyErrors :
         eval = [f |-> "isInsufficientBalanceError", error |-> error,
                 done |-> FALSE, result |-> FALSE]

Classify ==
    /\ eval.f = "isInsufficientBalanceError"
    /\ ~eval.done
    /\ eval' = [eval EXCEPT !.done = TRUE,
                            !.result = isInsufficientBalanceError(eval.error)]
    /\ UNCHANGED <<engineVars, user_settings, workerVars>>

SpecClassify == InitClassify /\ [][Classify]_vars

\* ------------------------------------------------- signed metadata
\* The property names of the signed-metadata document, as character
\* sequences, and the UTF-16 code units of their characters
MetadataKey ==
    [spec_version |-> <<"s", "p", "e", "c", "_", "v", "e", "r", "s", "i", "o", "n">>,
     recorder |-> <<"r", "e", "c", "o", "r", "d", "e", "r">>,
     created_at |-> <<"c", "r", "e", "a", "t", "e", "d", "_", "a", "t">>,
     location_latitude |-> <<"l", "o", "c", "a", "t", "i", "o", "n", "_", "l", "a", "t", "i", "t", "u", "d", "e">>,
     location_longitude |-> <<"l", "o", "c", "a", "t", "i", "o", "n", "_", "l", "o", "n", "g", "i", "t", "u", "d", "e">>,
     web_source_url |-> <<"w", "e", "b", "_", "s", "o", "u", "r", "c", "e", "_", "u", "r", "l">>,
     web_source_title |-> <<"w", "e", "b", "_", "s", "o", "u", "r", "c", "e", "_", "t", "i", "t", "l", "e">>]
CharCode(c) ==
    IF c = "_" THEN 95
    ELSE 96 + CHOOSE k \in 1..26 : LowerCase[k] = c

\* The order Array.prototype.sort() puts two strings in: by code units
RECURSIVE StringLess(_, _)
StringLess(x, y) ==
    IF y = <<>> THEN FALSE
    ELSE IF x = <<>> THEN TRUE
    ELSE IF CharCode(Head(x)) # CharCode(Head(y))
         THEN CharCode(Head(x)) < CharCode(Head(y))
         ELSE StringLess(Tail(x), Tail(y))

\* Array.prototype.sort(): insertion of each key at its place
RECURSIVE InsertSorted(_, _)
InsertSorted(k, sorted) ==
    IF sorted = <<>> THEN <<k>>
    ELSE IF StringLess(Head(sorted), k)
         THEN <<Head(sorted)>> \o InsertSorted(k, Tail(sorted))
         ELSE <<k>> \o sorted
RECURSIVE sort(_)
sort(ks) == IF ks = <<>> THEN <<>> ELSE InsertSorted(Head(ks), sort(Tail(ks)))

\* The metadata object createSignedMetadata builds: its properties in
\* insertion order
metadataObject(asset) ==
    <<[k |-> MetadataKey.spec_version, v |-> "2.0.0"],
      [k |-> MetadataKey.recorder, v |-> "ProofSnap Browser Extension"],
      [k |-> MetadataKey.created_at, v |-> asset.createdAt]>>
    \o (IF asset.gpsLocation # "undefined"
        THEN <<[k |-> MetadataKey.location_latitude, v |-> asset.gpsLocation],
               [k |-> MetadataKey.location_longitude, v |-> asset.gpsLocation]>>
        ELSE <<>>)
    \o (IF asset.sourceWebsite # "undefined"
        THEN <<[k |-> MetadataKey.web_source_url, v |-> asset.sourceWebsite],
               [k |-> MetadataKey.web_source_title, v |-> asset.sourceWebsite]>>
        ELSE <<>>)

\* Object.keys(metadata)
ObjectKeys(object) == [i \in 1..Len(object) |-> object[i].k]

\* JSON.stringify(metadata, keys, 2): the properties of the object named in
\* keys, in the order of keys
stringifyWithKeys(object, keys) ==
    [i \in 1..Len(keys) |->
        object[CHOOSE j \in 1..Len(object) : object[j].k = keys[i]]]

\* createSignedMetadata writing the properties in insertion order
createSignedMetadataUnsorted(asset) ==
    LET metadata == metadataObject(asset) IN
    stringifyWithKeys(metadata, ObjectKeys(metadata))

\* UploadService.createSignedMetadata
createSignedMetadata(asset) ==
    LET metadata == metadataObject(asset)
        sortedKeys == sort(ObjectKeys(metadata)) IN
    stringifyWithKeys(metadata, sortedKeys)

\* The assets a capture creates: capture time, location and website (each
\* a value standing for the pair the code stores, or not there), with the
\* record of status and error fields that the engine rewrites.
CapturedAssets ==
    [createdAt : {"t1", "t2", "t3"},
     gpsLocation : {"undefined", "g1", "g2"},
     sourceWebsite : {"undefined", "w1", "w2"},
     record : {Draft}]

InitMetadata ==
    /\ EngineIdle
    /\ user_settings = JSON_stringify(DEFAULT_SETTINGS)
    /\ \E asset \in CapturedAssets :
         eval = [f |-> "createSignedMetadata", asset |-> asset, pc |-> "first",
                 first |-> <<>>, second |-> <<>>]

\* The first upload attempt prepares its form data
FirstAttempt ==
    /\ eval.f = "createSignedMetadata"
    /\ eval.pc = "first"
    /\ eval' = [eval EXCEPT !.pc = "attempted",
                            !.first = createSignedMetadata(eval.asset)]
    /\ UNCHANGED <<engineVars, user_settings, workerVars>>

\* The attempt fails: the record has gone through uploading and is failed
AttemptFails ==
    /\ eval.f = "createSignedMetadata"
    /\ eval.pc = "attempted"
    /\ \E error \in RemoteErrors :
         LET uploading == updateAssetStatusToUploading(eval.asset.record)
             errorType == IF isInsufficientBalanceError(error)
                          THEN "insufficient_credits" ELSE "none" IN
         eval' = [eval EXCEPT !.pc = "failed",
                              !.asset.record = Failed(errorType)]
    /\ UNCHANGED <<engineVars, user_settings, workerVars>>

\* The retry prepares its form data from the record as it is now
RetryAttempt ==
    /\ eval.f = "createSignedMetadata"
    /\ eval.pc = "failed"
    /\ eval' = [eval EXCEPT !.pc = "retried",
                            !.asset.record =
                                updateAssetStatusToUploading(eval.asset.record),
                            !.second = createSignedMetadata(
                                [eval.asset EXCEPT !.record =
                                    updateAssetStatusToUploading(eval.asset.record)])]
    /\ UNCHANGED <<engineVars, user_settings, workerVars>>

NextMetadata == FirstAttempt \/ AttemptFails \/ RetryAttempt

SpecMetadata == InitMetadata /\ [][NextMetadata]_vars

\* ------------------------------------------------- getSettings alone
\* The records a version of the extension may have saved: any subset of
\* the fields, each with one of its values
SavedRecords ==
    UNION {[D -> BOOLEAN] : D \in SUBSET DOMAIN DEFAULT_SETTINGS}

\* A text cut short, and a text that is no JSON at all
Truncated(text) == {SubSeq(text, 1, n) : n \in 1..(Len(text) - 1)}
CorruptTexts ==
    UNION {Truncated(JSON_stringify(r)) : r \in SavedRecords} \cup {<<RBrace>>}

InitSettings ==
    /\ EngineIdle
    /\ \/ \E saved \in SavedRecords :
            /\ user_settings = JSON_stringify(saved)
            /\ eval = [f |-> "getSettings", saved |-> saved, corrupt |-> FALSE,
                       done |-> FALSE, result |-> getSettings(NoText)]
       \/ \E text \in CorruptTexts :
            /\ user_settings = text
            /\ eval = [f |-> "getSettings", saved |-> EmptyObject, corrupt |-> TRUE,
                       done |-> FALSE, result |-> getSettings(NoText)]

GetSettings ==
    /\ eval.f = "getSettings"
    /\ ~eval.done
    /\ eval' = [eval EXCEPT !.done = TRUE, !.result = getSettings(user_settings)]
    /\ UNCHANGED <<engineVars, user_settings, workerVars>>

SpecSettings == InitSettings /\ [][GetSettings]_vars

\* ==================================================================== claims
IsPrefix(s, t) == Len(s) <= Len(t) /\ SubSeq(t, 1, Len(s)) = s

\* C1: with enqueues and successful drain steps only, drain steps start in
\* the order in which the assets were appended, the assets are recorded
\* uploaded in that same order, and an asset recorded uploaded is absent from
\* the asset store once its deleteAsset has taken effect.
C1_FifoOrder ==
    /\ IsPrefix(log.started, log.enq)
    /\ IsPrefix(log.uploaded, log.started)
    /\ Len(log.started) - Len(log.uploaded) \in {0, 1}
    /\ \A i \in 1..Len(log.uploaded) :
         \/ assets[log.uploaded[i]] = Absent
         \/ /\ i = Len(log.uploaded)
            /\ drain.pc = "delete"
            /\ drain.asset = log.uploaded[i]

\* b was appended before a, both were uploaded in that order, the engine is idle
C1_Witness ==
    /\ log.enq = <<"b", "a">>
    /\ log.uploaded = <<"b", "a">>
    /\ drain = NoDrain
    /\ assets = [id \in Ids |-> Absent]

\* A step of an engine instance (not the replacement of the instance)
SameInstance == ~Restart

\* C2: while the busy flag is set no step starts a drain step for another
\* asset (the drain task keeps its asset until its own last step), and the
\* steps that call processQueue() with the flag set (the return of an enqueue,
\* setPaused(false), the end of restoreQueue) leave the flag and the drain
\* task alone and take nothing from the queue.
C2_OneUploadInFlight ==
    /\ [][(isUploading /\ drain.pc # "saved" /\ SameInstance)
            => (isUploading' /\ drain'.asset = drain.asset)]_vars
    /\ [][(isUploading /\ (AddToQueueReturn \/ AddMultipleToQueueReturn
                            \/ SetPaused(FALSE)))
            => UNCHANGED <<uploadQueue, isUploading, drain>>]_vars
    /\ [][(isUploading /\ RestoreGetAsset /\ restore'.pc = "done")
            => (UNCHANGED <<isUploading, drain>>
                /\ uploadQueue' = restoreAssets(restore.got, restore.ids[restore.i]))]_vars
    /\ [](isUploading <=> drain.pc # "idle")

\* An enqueue has just returned, calling processQueue(), while an upload is
\* in flight and the engine is not paused: the appended asset waits.
C2_Witness ==
    /\ ev = "addToQueue"
    /\ isUploading
    /\ ~isPaused
    /\ drain.pc = "post"
    /\ uploadQueue # <<>>
    /\ drain.asset \notin Range(uploadQueue)

\* C3: a call of addToQueue with an asset whose id is already in the in-memory
\* queue leaves the in-memory queue and the persisted ID list as they were
\* (and returns in the same step, with no save pending).
C3_EnqueueIdempotent ==
    [][\A id \in Ids, m \in BOOLEAN :
         (AddToQueue(id, m) /\ id \in Range(uploadQueue))
           => (/\ uploadQueue' = uploadQueue
               /\ upload_queue' = upload_queue
               /\ calls' = calls
               /\ ev' = "addToQueue:duplicate")]_vars

\* addToQueue has just returned for an id that was already queued; the queue
\* holds both ids and the persisted list agrees with it.
C3_Witness ==
    /\ ev = "addToQueue:duplicate"
    /\ Len(uploadQueue) = 2
    /\ upload_queue = uploadQueue

\* A drain step starts in this step
DrainStarts == drain'.pc = "updateUploading" /\ drain' # drain

\* C4: a failure classified as balance exhaustion sets the pause flag in the
\* step that classifies it and leaves the queue as it is; while the flag stays
\* set no drain step starts, and (start-up restoration being over) the queue
\* loses an asset only through removeFromQueue; the flag is cleared only by
\* setPaused(false), by a manual-retry enqueue returning, or by the
\* replacement of the engine instance.
C4_BalanceFailurePauses ==
    /\ [][(drain'.errorType = "insufficient_credits"
              /\ drain.errorType # "insufficient_credits")
            => (isPaused' /\ uploadQueue' = uploadQueue /\ isUploading')]_vars
    /\ [][(isPaused /\ isPaused') => ~DrainStarts]_vars
    /\ [][(isPaused /\ isPaused' /\ restore.pc = "done"
              /\ ~(\E id \in Ids : RemoveFromQueue(id)))
            => IsPrefix(uploadQueue, uploadQueue')]_vars
    /\ [][(isPaused /\ ~isPaused')
            => \/ SetPaused(FALSE)
               \/ Restart
               \/ /\ calls # <<>>
                  /\ Head(calls).manual
                  /\ (AddToQueueReturn \/ AddMultipleToQueueReturn)]_vars

\* a failed with balance exhaustion; its drain step is over, the engine is
\* paused and idle, and b waits in the queue.
C4_Witness ==
    /\ isPaused
    /\ ~isUploading
    /\ drain = NoDrain
    /\ assets["a"] = Failed("insufficient_credits")
    /\ uploadQueue = <<"b">>
    /\ upload_queue = <<"b">>
    /\ restore.pc = "done"

\* C5: whenever addToQueue or addMultipleToQueue is called with
\* isManualRetry = TRUE while the engine is paused, the engine is not paused
\* when the call returns: in the step of the call when it returns at once
\* (the id is already queued, nothing was added), in the step after its await
\* otherwise.
C5_ManualRetryUnpauses ==
    /\ [][\A id \in Ids :
            (isPaused /\ AddToQueue(id, TRUE) /\ ev' = "addToQueue:duplicate")
              => ~isPaused']_vars
    /\ [][\A batch \in Batches :
            (isPaused /\ AddMultipleToQueue(batch, TRUE)
               /\ ev' = "addMultipleToQueue:nothingAdded")
              => ~isPaused']_vars
    /\ [][(calls # <<>> /\ Head(calls).manual
              /\ (AddToQueueReturn \/ AddMultipleToQueueReturn))
            => ~isPaused']_vars

\* C6: the step in which a failure is classified as ordinary (not balance
\* exhaustion) leaves the pause flag and the queue as they are; once the
\* failure is recorded the rest of the drain step needs no public call
\* (saveQueue, then the end of processQueue, are enabled), and the end of the
\* drain step, with the engine not paused and the queue not empty, starts the
\* drain step of the asset at the head of the queue.
C6_OrdinaryFailureDoesNotBlock ==
    /\ [][(drain.pc \in {"updateUploading", "post", "updateUploaded"}
              /\ drain'.pc = "updateFailed")
            => (/\ isPaused' = isPaused
                /\ uploadQueue' = uploadQueue
                /\ drain'.errorType = "none")]_vars
    /\ [][(DrainUpdateFailedOk /\ drain.errorType = "none")
            => (drain'.pc = "saveQueue" /\ isPaused' = isPaused)]_vars
    /\ [](drain.pc = "saveQueue" => ENABLED DrainSaveQueue)
    /\ [](drain.pc = "saved" => ENABLED DrainFinish)
    /\ [][(DrainFinish /\ ~isPaused /\ uploadQueue # <<>>)
            => (/\ drain' = [pc |-> "updateUploading", asset |-> Head(uploadQueue),
                             errorType |-> "none"]
                /\ uploadQueue' = Tail(uploadQueue)
                /\ isUploading')]_vars

\* One public call was made (addMultipleToQueue of a and b); a failed for an
\* ordinary reason and is recorded failed without the tag; the engine is not
\* paused and the drain step of b has started.
C6_Witness ==
    /\ ops = 1
    /\ assets["a"] = Failed("none")
    /\ ~isPaused
    /\ drain = [pc |-> "updateUploading", asset |-> "b", errorType |-> "none"]
    /\ uploadQueue = <<>>
    /\ upload_queue = <<"b">>

\* C7: a remote error is tagged insufficient_credits exactly when it is
\* classified as balance exhaustion; the step that records a failure leaves
\* the asset in the asset store with status failed, an error message and the
\* tag of the classification (insufficient_credits for balance exhaustion,
\* none otherwise); a record with status failed always carries an error
\* message, a record with another status never carries the tag; and no step
\* of a failing drain step removes the asset from the store.
C7_FailureRecording ==
    /\ [](\A e \in RemoteErrors, id \in Ids, p \in BOOLEAN :
            (handleUploadError(id, e, p).d.errorType = "insufficient_credits")
              <=> isInsufficientBalanceError(e))
    /\ [](\A id \in Ids :
            /\ assets[id].status = "failed"
                 => (assets[id].error
                     /\ assets[id].errorType \in {"none", "insufficient_credits"})
            /\ assets[id].status # "failed"
                 => (~assets[id].error /\ assets[id].errorType = "none"))
    /\ [][(drain.pc = "updateFailed" /\ drain'.pc = "saveQueue"
              /\ assets[drain.asset] # Absent)
            => (/\ assets'[drain.asset].status = "failed"
                /\ assets'[drain.asset].error
                /\ assets'[drain.asset].errorType = drain.errorType
                /\ \A id \in Ids \ {drain.asset} : assets'[id] = assets[id])]_vars
    /\ [][\A id \in Ids :
            (assets[id] # Absent /\ assets'[id] = Absent)
              => (drain.pc = "delete" /\ drain.asset = id)]_vars
    /\ [](drain.errorType = "insufficient_credits"
            => drain.pc \in {"clearDismissed", "updateFailed", "saveQueue",
                             "saved", "thrown"})

\* The scenario: a was uploaded and deleted, b failed with balance
\* exhaustion and is recorded failed with the tag; the engine is paused and
\* idle with an empty queue.
C7_Witness ==
    /\ assets["a"] = Absent
    /\ assets["b"] = [status |-> "failed", error |-> TRUE,
                      errorType |-> "insufficient_credits"]
    /\ isPaused
    /\ ~isUploading
    /\ drain = NoDrain
    /\ uploadQueue = <<>>
    /\ upload_queue = <<>>
    /\ ops = 1

\* No drain step, enqueue, removal or restoration is in progress
Quiescent == drain.pc = "idle" /\ calls = <<>> /\ restore.pc = "done"

\* C8: in every quiescent state the persisted ID list equals the sequence of
\* ids of the in-memory queue.
C8_PersistedMirrorsQueue == Quiescent => upload_queue = uploadQueue

\* C9 as stated: when addToQueue or addMultipleToQueue returns after
\* appending, every id it appended is in the persisted ID list; when
\* removeFromQueue(id) returns, id is neither in the in-memory queue nor in
\* the persisted ID list.
C9_DurableAtReturn ==
    /\ [][(calls # <<>> /\ (AddToQueueReturn \/ AddMultipleToQueueReturn))
            => Range(Head(calls).ids) \subseteq Range(upload_queue')]_vars
    /\ [][(calls # <<>> /\ RemoveFromQueueReturn)
            => Head(calls).ids[1] \notin Range(uploadQueue') \cup Range(upload_queue')]_vars

\* C9 amended: a queue-mutating operation writes the ID list in the same
\* step as its change of the in-memory queue, before it suspends and so
\* before it returns: right after an append the persisted list is the
\* in-memory queue's id sequence and holds the appended ids, right after a
\* removal it is that sequence and the id is in neither; the step in which
\* the operation returns writes nothing.
C9_WrittenBeforeReturn ==
    /\ [][\A id \in Ids, m \in BOOLEAN :
            (AddToQueue(id, m) /\ id \notin Range(uploadQueue))
              => (/\ uploadQueue' = Append(uploadQueue, id)
                  /\ upload_queue' = uploadQueue'
                  /\ id \in Range(upload_queue')
                  /\ calls' = Append(calls, [op |-> "addToQueue", ids |-> <<id>>,
                                             manual |-> m]))]_vars
    /\ [][\A batch \in Batches, m \in BOOLEAN :
            (AddMultipleToQueue(batch, m) /\ uploadQueue' # uploadQueue)
              => (/\ upload_queue' = uploadQueue'
                  /\ Range(batch) \subseteq Range(upload_queue')
                  /\ Len(calls') = Len(calls) + 1)]_vars
    /\ [][(RetryFailedUploads /\ uploadQueue' # uploadQueue)
            => (/\ upload_queue' = uploadQueue'
                /\ Len(calls') = Len(calls) + 1)]_vars
    /\ [][\A id \in Ids :
            RemoveFromQueue(id)
              => (/\ id \notin Range(uploadQueue') \cup Range(upload_queue')
                  /\ upload_queue' = uploadQueue'
                  /\ Len(calls') = Len(calls) + 1)]_vars
    /\ [][(AddToQueueReturn \/ AddMultipleToQueueReturn \/ RemoveFromQueueReturn)
            => upload_queue' = upload_queue]_vars

\* addToQueue for a and then for b are at their awaits, nothing is in flight:
\* the ID list already holds both ids
C9_Witness ==
    /\ Len(calls) = 2
    /\ calls[2].op = "addToQueue"
    /\ calls[2].ids = <<"b">>
    /\ drain = NoDrain
    /\ uploadQueue = <<"a", "b">>
    /\ upload_queue = <<"a", "b">>

\* s is t with some elements left out (the order kept)
RECURSIVE IsSubSeq(_, _)
IsSubSeq(s, t) ==
    IF s = <<>> THEN TRUE
    ELSE IF t = <<>> THEN FALSE
    ELSE IF Head(s) = Head(t) THEN IsSubSeq(Tail(s), Tail(t))
    ELSE IsSubSeq(s, Tail(t))

\* The queue restoreQueue assigned in this step, its head put back if the
\* processQueue() that follows the assignment took it
RestoredQueue ==
    IF DrainStarts THEN <<drain'.asset>> \o uploadQueue' ELSE uploadQueue'

\* C10: restoreQueue reads the persisted ID list (as it is when the engine is
\* constructed) and looks the ids up one by
\* one in that order; a lookup that finds the asset appends it to the
\* restored list, a lookup that finds nothing leaves the list as it is, and
\* in both cases the restoration goes on to the next id (or assigns the list
\* to the queue after the last) and changes nothing in the asset store.  So
\* the restored list is a subsequence of the persisted list, in its order,
\* that holds every looked-up id whose asset exists.
C10_RestoreSkipsMissing ==
    /\ [][RestoreGetIds
            => (/\ restore'.ids = restore.ids
                /\ restore'.got = <<>>
                /\ restore'.pc = IF restore.ids = <<>> THEN "done" ELSE "getAsset")]_vars
    /\ [][Restart => restore'.ids = upload_queue]_vars
    /\ [][(RestoreGetAsset /\ restore.i < Len(restore.ids))
            => (/\ restore'.got = IF assets[restore.ids[restore.i]] # Absent
                                  THEN Append(restore.got, restore.ids[restore.i])
                                  ELSE restore.got
                /\ restore'.pc = "getAsset"
                /\ restore'.i = restore.i + 1
                /\ restore'.ids = restore.ids
                /\ assets' = assets)]_vars
    /\ [][(RestoreGetAsset /\ restore.i = Len(restore.ids))
            => (/\ RestoredQueue = IF assets[restore.ids[restore.i]] # Absent
                                   THEN Append(restore.got, restore.ids[restore.i])
                                   ELSE restore.got
                /\ restore'.pc = "done"
                /\ assets' = assets)]_vars
    /\ [](restore.pc = "getAsset"
            => (/\ restore.i \in 1..Len(restore.ids)
                /\ IsSubSeq(restore.got, SubSeq(restore.ids, 1, restore.i - 1))
                /\ \A j \in 1..(restore.i - 1) :
                     assets[restore.ids[j]] # Absent
                       => restore.ids[j] \in Range(restore.got)))

\* The persisted list names a and b, the asset a is gone (the worker was
\* restarted between its deleteAsset and the saveQueue after it): the
\* restoration is over, it skipped a and kept b, whose drain step has started.
C10_Witness ==
    /\ restore.pc = "done"
    /\ upload_queue = <<"a", "b">>
    /\ assets["a"] = Absent
    /\ assets["b"] # Absent
    /\ drain = [pc |-> "updateUploading", asset |-> "b", errorType |-> "none"]
    /\ uploadQueue = <<>>
    /\ ops = 2

\* C11: the new engine instance a restart constructs is not paused and not
\* busy, whatever the old instance's pause flag was, and has its restoreQueue
\* pending; the steps of restoreQueue need no public call (they are enabled);
\* and the step that ends the restoration with a non-empty restored list, the
\* engine being neither paused nor busy, starts the drain step of the first
\* restored asset.
C11_PauseNotPersisted ==
    /\ [][Restart => (/\ ~isPaused'
                      /\ ~isUploading'
                      /\ restore' = NewRestore(upload_queue)
                      /\ upload_queue' = upload_queue
                      /\ assets' = assets)]_vars
    /\ [](restore.pc = "getIds" => ENABLED RestoreGetIds)
    /\ [](restore.pc = "getAsset" => ENABLED RestoreGetAsset)
    /\ [][(RestoreGetAsset /\ restore'.pc = "done" /\ ~isPaused /\ ~isUploading
              /\ restoreAssets(restore.got, restore.ids[restore.i]) # <<>>)
            => (/\ DrainStarts
                /\ isUploading'
                /\ drain'.asset
                     = Head(restoreAssets(restore.got, restore.ids[restore.i]))
                /\ uploadQueue'
                     = Tail(restoreAssets(restore.got, restore.ids[restore.i])))]_vars

\* a failed with balance exhaustion and the engine paused itself with b
\* queued and persisted; the worker was restarted: the new instance is not
\* paused and is about to restore the list that names b.
C11_Witness ==
    /\ assets["a"] = Failed("insufficient_credits")
    /\ upload_queue = <<"b">>
    /\ assets["b"] # Absent
    /\ ~isPaused
    /\ restore = NewRestore(upload_queue)
    /\ drain = NoDrain
    /\ uploadQueue = <<>>
    /\ ops = 2

\* C12: in no quiescent state does the asset store hold a record with status
\* uploaded, and the asset of a drain step that has recorded its outcome and
\* reached saveQueue does not have that status.
C12_UploadedNotRetained ==
    /\ Quiescent => \A id \in Ids : assets[id].status # "uploaded"
    /\ drain.pc \in {"saveQueue", "saved"} => assets[drain.asset].status # "uploaded"

\* The changes of the recorded status the lifecycle allows; absent is the
\* record deleted
Lifecycle ==
    { <<"draft", "uploading">>, <<"failed", "uploading">>,
      <<"uploading", "uploaded">>, <<"uploading", "failed">>,
      <<"uploaded", "absent">> }

\* C13: every step that changes the status recorded for an asset in the asset
\* store changes it along draft -> uploading, failed -> uploading,
\* uploading -> uploaded or uploading -> failed, or deletes a record with
\* status uploaded.
C13_StatusLifecycle ==
    [][\A id \in Ids :
         assets'[id].status # assets[id].status
           => <<assets[id].status, assets'[id].status>> \in Lifecycle]_vars

\* C14: setPaused(true) sets the flag and leaves the upload in flight, the
\* busy flag, the queue and the asset store as they are; an upload that is in
\* flight while the engine is paused goes on to its outcome, which is recorded
\* in the asset store (uploaded, then deleted, or failed); and while the flag
\* stays set no drain step starts.
C14_PauseLetsUploadFinish ==
    /\ [][SetPaused(TRUE)
            => (isPaused' /\ UNCHANGED <<drain, isUploading, uploadQueue, assets>>)]_vars
    /\ [][(isPaused /\ isPaused') => ~DrainStarts]_vars
    /\ \A id \in Ids :
         (isPaused /\ drain.asset = id /\ drain.pc \in {"updateUploading", "post"}
            /\ assets[id] # Absent)
           ~> (assets[id].status \in {"uploaded", "failed"})

\* setPaused(true) was called while a was in flight with b queued behind it:
\* a's failure is recorded, its drain step is over, b has not started.
C14_Witness ==
    /\ isPaused
    /\ assets["a"] = Failed("none")
    /\ assets["b"] = Draft
    /\ uploadQueue = <<"b">>
    /\ upload_queue = <<"b">>
    /\ drain = NoDrain
    /\ ~isUploading

\* C15: setPaused(false) clears the flag; called with a non-empty queue and
\* no upload in flight it starts the drain step of the head of the queue;
\* called with an empty queue it leaves the queue, the busy flag and the drain
\* task as they are (an idle engine stays idle).
C15_ResumeStartsHead ==
    /\ [][SetPaused(FALSE) => ~isPaused']_vars
    /\ [][(SetPaused(FALSE) /\ ~isUploading /\ uploadQueue # <<>>)
            => (/\ drain' = [pc |-> "updateUploading", asset |-> Head(uploadQueue),
                             errorType |-> "none"]
                /\ uploadQueue' = Tail(uploadQueue)
                /\ isUploading')]_vars
    /\ [][(SetPaused(FALSE) /\ uploadQueue = <<>>)
            => UNCHANGED <<drain, isUploading, uploadQueue>>]_vars

\* The engine had paused itself on a's balance failure with b queued; the one
\* public call made since the start, setPaused(false), has just returned and
\* b's drain step has started.
C15_Witness ==
    /\ ev = "setPaused"
    /\ ops = 1
    /\ assets["a"] = Failed("insufficient_credits")
    /\ ~isPaused
    /\ drain = [pc |-> "updateUploading", asset |-> "b", errorType |-> "none"]
    /\ uploadQueue = <<>>
    /\ upload_queue = <<"b">>

\* C16: a record with status uploading carries no error message and no
\* errorType; in particular the step that records uploading for an asset
\* whose record was failed with an error message (and a tag) writes a record
\* without them.
C16_RetryClearsError ==
    /\ [](\A id \in Ids :
            assets[id].status = "uploading"
              => (~assets[id].error /\ assets[id].errorType = "none"))
    /\ [][\A id \in Ids :
            (assets[id].status = "failed" /\ assets'[id].status # "failed")
              => assets'[id] = Uploading]_vars

\* a was appended twice and its drain step started twice with no restart in
\* between: the first attempt failed, the retry has recorded status
\* uploading without error fields and its remote call is under way.
C16_Witness ==
    /\ log.enq = <<"a", "a">>
    /\ log.started = <<"a", "a">>
    /\ ops = 2
    /\ assets["a"] = Uploading
    /\ drain = [pc |-> "post", asset |-> "a", errorType |-> "none"]

\* C17: when no drain step is running (none has started, or the last one has
\* ended, by its return or by an exception that left processQueue) the busy
\* flag is clear, so that the next processQueue() can start the next asset.
C17_FailureNeverDisablesEngine ==
    drain.pc \in {"idle", "thrown"} => ~isUploading

\* C18: in a behaviour where the engine is not paused for ever, every asset
\* that is in the queue later has a drain step of its own, unless
\* removeFromQueue takes it out, the asset of every drain step reaches
\* uploaded or failed, and the engine is again and again idle with an empty
\* queue.
InQueue(id) == id \in Range(uploadQueue)
StepOf(id) == drain.asset = id /\ drain.pc = "updateUploading"
Removed(id) ==
    \E i \in 1..Len(calls) :
        calls[i].op = "removeFromQueue" /\ calls[i].ids = <<id>>
C18_EveryQueuedAssetProcessed ==
    ([]<>~isPaused) =>
        /\ \A id \in Ids :
              InQueue(id) ~> (StepOf(id) \/ Removed(id))
        /\ \A id \in Ids :
              StepOf(id) ~> (assets[id].status \in {"uploaded", "failed", "absent"})
        /\ []<>(~isUploading /\ uploadQueue = <<>>)

\* C19: a drain step submits its asset to the remote service once: the call
\* of postWithAuth is entered only from the uploading update of the same
\* drain step and is left only for one of its two outcomes.  And nothing but
\* an enqueue (addToQueue, addMultipleToQueue, retryFailedUploads) puts an
\* asset recorded as failed back in the queue, and the drain step of an
\* asset recorded as failed takes the asset from the queue.
Enqueues(id) ==
    \/ \E m \in BOOLEAN : AddToQueue(id, m)
    \/ \E batch \in Batches, m \in BOOLEAN :
          id \in Range(batch) /\ AddMultipleToQueue(batch, m)
    \/ RetryFailedUploads
C19_NoAutomaticRetry ==
    /\ [][(drain' # drain) =>
             /\ drain'.pc = "post" =>
                   (drain.pc = "updateUploading" /\ drain'.asset = drain.asset)
             /\ (drain.pc = "post" /\ ~Restart) =>
                   /\ drain'.pc \in {"updateUploaded", "updateFailed",
                                     "clearDismissed"}
                   /\ drain'.asset = drain.asset]_vars
    /\ [][\A id \in Ids :
             (assets[id].status = "failed" /\ ~InQueue(id) /\ InQueue(id)')
               => Enqueues(id)]_vars
    /\ [][\A id \in Ids :
             (assets[id].status = "failed" /\ drain' # drain /\ StepOf(id)')
               => InQueue(id)]_vars

\* C20: the step in which an upload fails for insufficient balance leaves
\* the dismissal flag cleared in the store, whatever dismissal was made
\* before; and the failure progress event of that asset, emitted when
\* updateAsset(failed) has resolved, comes after the removal of the flag was
\* awaited and with the asset recorded as failed (an asset whose record was
\* deleted by an earlier drain step has no record to update).
BalanceFailure ==
    drain.pc = "post" /\ drain'.pc = "clearDismissed"
EmitsFailed ==
    /\ drain.pc = "updateFailed" /\ drain'.pc = "saveQueue"
    /\ drain.errorType = "insufficient_credits"
SameLetter(c, d) ==
    \/ c = d
    \/ \E k \in 1..26 : {c, d} = {UpperCase[k], LowerCase[k]}
Occurs(keyword, str) ==
    \E i \in 0..(Len(str) - Len(keyword)) :
        \A j \in 1..Len(keyword) : SameLetter(str[i + j], keyword[j])
Mentions(keyword, error) ==
    error.message # Undefined /\ Occurs(keyword, error.message)
C30_FailureClassification ==
    (eval.f = "isInsufficientBalanceError" /\ eval.done) =>
        /\ eval.result <=>
              \/ eval.error.type = "asset_commit_insufficient_fund"
              \/ /\ Mentions(Keyword.insufficient, eval.error)
                 /\ \/ Mentions(Keyword.fund, eval.error)
                    \/ Mentions(Keyword.balance, eval.error)
                    \/ Mentions(Keyword.credit, eval.error)
        /\ (eval.error.type # "asset_commit_insufficient_fund"
              /\ eval.error.message \in {Undefined, <<>>}) => ~eval.result
C30_Witness ==
    /\ eval.f = "isInsufficientBalanceError" /\ eval.done
    /\ eval.error = [type |-> "other", message |-> Phrase(Word.INSUFFICIENT, Word.Balance)]
    /\ eval.result

\* C27: for a stored record holding any subset of the settings fields,
\* getSettings resolves to the stored value of every stored field and to the
\* default of every other field.
C27_SettingsMergedWithDefaults ==
    (eval.f = "getSettings" /\ eval.done /\ ~eval.corrupt) =>
        /\ ~eval.result.threw
        /\ DOMAIN eval.result.settings = DOMAIN DEFAULT_SETTINGS
        /\ \A f \in DOMAIN DEFAULT_SETTINGS :
              eval.result.settings[f] =
                 IF f \in DOMAIN eval.saved THEN eval.saved[f]
                 ELSE DEFAULT_SETTINGS[f]
C27_Witness ==
    /\ eval.f = "getSettings" /\ eval.done
    /\ eval.saved = [autoUpload |-> FALSE]
    /\ eval.result.settings =
          [autoUpload |-> FALSE, includeLocation |-> FALSE,
           includeTimestamp |-> TRUE]

\* C28: for a stored text that does not parse, getSettings resolves to the
\* default settings and raises nothing.
C28_CorruptSettingsFallBack ==
    (eval.f = "getSettings" /\ eval.done /\ eval.corrupt) =>
        /\ ~eval.result.threw
        /\ eval.result.settings = DEFAULT_SETTINGS

\* C29: the document generated for the retry of an asset is the document
\* generated for its first attempt, whatever the engine wrote to the status
\* and error fields in between, and the property names of a generated
\* document are in strictly increasing lexicographic order.
Precedes(x, y) ==
    \E n \in 0..Len(x) :
        /\ n <= Len(y)
        /\ SubSeq(x, 1, n) = SubSeq(y, 1, n)
        /\ \/ n = Len(x) /\ n < Len(y)
           \/ n < Len(x) /\ n < Len(y) /\ CharCode(x[n + 1]) < CharCode(y[n + 1])
KeysSorted(doc) ==
    \A i \in 1..Len(doc), j \in 1..Len(doc) : i < j => Precedes(doc[i].k, doc[j].k)
MaxRequests == Len(IdOrder)

Pending == [state |-> "pending", cancelled |-> FALSE, reason |-> "none"]
\* The value a capture returns: assetId, dataUrl, timestamp, autoUpload
Captured == [state |-> "fulfilled", cancelled |-> FALSE, reason |-> "none"]
\* The value handleSelectionComplete resolves a cancelled selection with
Cancelled(reason) == [state |-> "fulfilled", cancelled |-> TRUE, reason |-> reason]
\* A thrown Error with this message
Rejected(message) == [state |-> "rejected", cancelled |-> FALSE, reason |-> message]

\* The listener's then and catch callbacks: the response sent for an outcome
sendResponse(outcome) ==
    IF outcome.state = "rejected"
    THEN [success |-> FALSE, cancelled |-> FALSE, error |-> outcome.reason]
    ELSE IF outcome.cancelled
    THEN [success |-> FALSE, cancelled |-> TRUE, error |-> "none"]
    ELSE [success |-> TRUE, cancelled |-> FALSE, error |-> "none"]

\* The promise of request r is resolved or rejected: a promise that is
\* settled already stays as it is, and one that settles now has the
\* listener's callback send the response
settle(reqs, r, outcome) ==
    IF reqs[r].result.state # "pending"
    THEN reqs
    ELSE [reqs EXCEPT ![r].result = outcome,
                      ![r].pc = "done",
                      ![r].responses = Append(@, sendResponse(outcome))]

\* The asset id a capture makes up (time and random suffix): a new one
assetId(k) == IdOrder[k]

NewRequest(type, mode, id) ==
    [type |-> type, mode |-> mode, id |-> id,
     pc |-> IF type = "UPLOAD_ASSET" THEN "getAsset" ELSE "tabs.query",
     result |-> Pending, responses |-> <<>>]

\* A capture at its first await.  req is the request that called it (visible
\* mode); for handleSelectionComplete, which reads the globals only at its
\* end, it records the request that was waiting when the message arrived.
NewCapture(mode, r, pc) ==
    [mode |-> mode, req |-> r, pc |-> pc, geolocation |-> "off",
     gpsLocation |-> FALSE, stored |-> FALSE]

\* case 'CAPTURE_SCREENSHOT': handleScreenshotCapture up to tabs.query
CaptureScreenshot(mode) ==
    /\ Len(requests) < MaxRequests
    /\ requests' = Append(requests, NewRequest("CAPTURE_SCREENSHOT", mode, "none"))
    /\ UNCHANGED <<engineVars, eval, user_settings, captures,
                   pendingSelectionResolve, pendingSelectionReject, timers,
                   overlayActive, authToken>>

\* case 'UPLOAD_ASSET': handleAssetUpload up to getAsset
UploadAsset(id) ==
    /\ Len(requests) < MaxRequests
    /\ requests' = Append(requests, NewRequest("UPLOAD_ASSET", "none", id))
    /\ UNCHANGED <<engineVars, eval, user_settings, captures,
                   pendingSelectionResolve, pendingSelectionReject, timers,
                   overlayActive, authToken>>

\* handleScreenshotCapture after tabs.query: no tab throws; selection mode
\* goes to handleSelectionCapture and its executeScript; the other modes
\* read the settings and take the snapshot
TabsQueryReturn(r, ok) ==
    /\ r \in DOMAIN requests
    /\ requests[r].pc = "tabs.query"
    /\ IF ~ok
       THEN /\ requests' = settle(requests, r, Rejected("No active tab found"))
            /\ UNCHANGED captures
       ELSE IF requests[r].mode = "selection"
       THEN /\ requests' = [requests EXCEPT ![r].pc = "executeScript"]
            /\ UNCHANGED captures
       ELSE IF getSettings(user_settings).threw
       THEN /\ requests' = settle(requests, r, Rejected("SyntaxError"))
            /\ UNCHANGED captures
       ELSE /\ requests' = [requests EXCEPT ![r].pc = "capture"]
            /\ captures' = Append(captures,
                                  NewCapture("visible", r, "captureVisibleTab"))
    /\ UNCHANGED <<engineVars, eval, user_settings, pendingSelectionResolve,
                   pendingSelectionReject, timers, overlayActive, authToken>>

\* handleSelectionCapture after executeScript: a failed injection throws;
\* otherwise the overlay is in the tab (the script does nothing when one is
\* there already), the two callbacks of the new promise are stored in the
\* globals and the 60-second timer is armed
ExecuteScriptReturn(r, ok) ==
    /\ r \in DOMAIN requests
    /\ requests[r].pc = "executeScript"
    /\ IF ~ok
       THEN /\ requests' = settle(requests, r,
                                  Rejected("Failed to start selection mode"))
            /\ UNCHANGED <<pendingSelectionResolve, pendingSelectionReject,
                           timers, overlayActive>>
       ELSE /\ requests' = [requests EXCEPT ![r].pc = "pending"]
            /\ pendingSelectionResolve' = r
            /\ pendingSelectionReject' = r
            /\ timers' = timers \cup {r}
            /\ overlayActive' = TRUE
    /\ UNCHANGED <<engineVars, eval, user_settings, captures, authToken>>

\* The setTimeout callback of handleSelectionCapture, armed by request r
SelectionTimeout(r) ==
    /\ r \in timers
    /\ timers' = timers \ {r}
    /\ IF pendingSelectionReject # Null
       THEN /\ requests' = settle(requests, pendingSelectionReject,
                                  Rejected("Selection timed out"))
            /\ pendingSelectionResolve' = Null
            /\ pendingSelectionReject' = Null
       ELSE UNCHANGED <<requests, pendingSelectionResolve, pendingSelectionReject>>
    /\ UNCHANGED <<engineVars, eval, user_settings, captures, overlayActive,
                   authToken>>

\* handleSelectionComplete(payload) up to its first await, called by the
\* listener on SELECTION_COMPLETE
handleSelectionComplete(payload) ==
    IF payload.cancelled
    THEN /\ IF pendingSelectionResolve # Null
            THEN /\ requests' = settle(requests, pendingSelectionResolve,
                                       Cancelled(payload.reason))
                 /\ pendingSelectionResolve' = Null
                 /\ pendingSelectionReject' = Null
            ELSE UNCHANGED <<requests, pendingSelectionResolve,
                             pendingSelectionReject>>
         /\ UNCHANGED captures
    ELSE /\ captures' = Append(captures,
                               NewCapture("selection", pendingSelectionResolve,
                                          "tabs.query"))
         /\ UNCHANGED <<requests, pendingSelectionResolve, pendingSelectionReject>>

\* The smallest width and height (CSS pixels) a selection may have
MinimumSelectionSize == 10
\* Widths and heights of the rectangle dragged
Sizes == {0, MinimumSelectionSize - 1, MinimumSelectionSize, 50}

\* handleMouseUp cancelling only a rectangle that is small in both dimensions
mouseUpPayloadBothSmall(width, height) ==
    IF width < MinimumSelectionSize /\ height < MinimumSelectionSize
    THEN [cancelled |-> TRUE, reason |-> "Selection too small"]
    ELSE [cancelled |-> FALSE, reason |-> "none"]

\* What handleMouseUp sends for a rectangle
mouseUpPayload(width, height) ==
    IF width < MinimumSelectionSize \/ height < MinimumSelectionSize
    THEN [cancelled |-> TRUE, reason |-> "Selection too small"]
    ELSE [cancelled |-> FALSE, reason |-> "none"]

\* What handleKeyDown sends for Escape
EscapePayload == [cancelled |-> TRUE, reason |-> "User cancelled"]

\* The overlay's handleMouseUp at the end of a drag: cleanup, then the
\* SELECTION_COMPLETE message, which the listener hands on
MouseUp(width, height) ==
    /\ overlayActive
    /\ overlayActive' = FALSE
    /\ handleSelectionComplete(mouseUpPayload(width, height))
    /\ UNCHANGED <<engineVars, eval, user_settings, timers, authToken>>

\* The overlay's handleKeyDown
KeyDown(key) ==
    /\ overlayActive
    /\ IF key = "Escape"
       THEN /\ overlayActive' = FALSE
            /\ handleSelectionComplete(EscapePayload)
       ELSE UNCHANGED <<overlayActive, requests, captures,
                        pendingSelectionResolve, pendingSelectionReject>>
    /\ UNCHANGED <<engineVars, eval, user_settings, timers, authToken>>

\* Capture k ends with this outcome.  In visible mode it is the return or
\* the throw of handleScreenshotCapture; handleSelectionComplete resolves or
\* rejects through the stored callback, if one is stored, and clears both.
Finish(k, outcome) ==
    /\ captures' = [captures EXCEPT ![k].pc = "done"]
    /\ IF captures[k].mode = "visible"
       THEN /\ requests' = settle(requests, captures[k].req, outcome)
            /\ UNCHANGED <<pendingSelectionResolve, pendingSelectionReject>>
       ELSE LET callback == IF outcome.state = "rejected"
                            THEN pendingSelectionReject
                            ELSE pendingSelectionResolve IN
            IF callback # Null
            THEN /\ requests' = settle(requests, callback, outcome)
                 /\ pendingSelectionResolve' = Null
                 /\ pendingSelectionReject' = Null
            ELSE UNCHANGED <<requests, pendingSelectionResolve,
                             pendingSelectionReject>>

\* Capture k goes on to its next await
Goto(k, pc) ==
    /\ captures' = [captures EXCEPT ![k].pc = pc]
    /\ UNCHANGED <<requests, pendingSelectionResolve, pendingSelectionReject>>

At(k, pc) == k \in DOMAIN captures /\ captures[k].pc = pc

\* handleSelectionComplete after tabs.query, then the settings
SelectionTabsQueryReturn(k, ok) ==
    /\ At(k, "tabs.query")
    /\ IF ~ok
       THEN Finish(k, Rejected("No active tab found"))
       ELSE IF getSettings(user_settings).threw
       THEN Finish(k, Rejected("SyntaxError"))
       ELSE Goto(k, "captureVisibleTab")
    /\ UNCHANGED <<engineVars, eval, user_settings, timers, overlayActive,
                   authToken>>

\* A capture that goes on without the snapshot when captureVisibleTab fails
CaptureVisibleTabReturnSwallowed(k, ok) ==
    /\ At(k, "captureVisibleTab")
    /\ Goto(k, "ADD_WATERMARK")
    /\ UNCHANGED <<engineVars, eval, user_settings, timers, overlayActive,
                   authToken>>

\* After captureVisibleTab (and, in visible mode, createImageBitmap)
CaptureVisibleTabReturn(k, ok) ==
    /\ At(k, "captureVisibleTab")
    /\ IF ~ok
       THEN Finish(k, Rejected("captureVisibleTab"))
       ELSE Goto(k, "ADD_WATERMARK")
    /\ UNCHANGED <<engineVars, eval, user_settings, timers, overlayActive,
                   authToken>>

\* After ensureOffscreenDocument and the ADD_WATERMARK message: when one of
\* them raises, visible mode goes on without the watermark (inner try) and
\* handleSelectionComplete, which has no inner try, fails
AddWatermarkReturn(k, ok) ==
    /\ At(k, "ADD_WATERMARK")
    /\ IF ~ok /\ captures[k].mode = "selection"
       THEN Finish(k, Rejected("ADD_WATERMARK"))
       ELSE IF getSettings(user_settings).settings.includeLocation
       THEN Goto(k, "GET_GEOLOCATION")
       ELSE Goto(k, "setAsset")
    /\ UNCHANGED <<engineVars, eval, user_settings, timers, overlayActive,
                   authToken>>

\* How the GET_GEOLOCATION exchange ends: with a position; with null
\* (getGeolocation resolves null when the position is denied, unavailable or
\* timed out); with success false (getGeolocation rejected); or raised
GeolocationOutcomes == {"position", "null", "error", "raised"}

\* A geolocation block without its inner try: an exception ends the capture
GetGeolocationReturnNoTry(k, outcome) ==
    /\ At(k, "GET_GEOLOCATION")
    /\ IF outcome = "raised"
       THEN /\ Finish(k, Rejected("GET_GEOLOCATION"))
            /\ UNCHANGED <<engineVars, eval, user_settings, timers,
                           overlayActive, authToken>>
       ELSE /\ captures' = [captures EXCEPT ![k].pc = "setAsset",
                                            ![k].geolocation = outcome,
                                            ![k].gpsLocation = (outcome = "position")]
            /\ UNCHANGED <<engineVars, eval, user_settings, requests,
                           pendingSelectionResolve, pendingSelectionReject,
                           timers, overlayActive, authToken>>

\* The inner try of the geolocation block
GetGeolocationReturn(k, outcome) ==
    /\ At(k, "GET_GEOLOCATION")
    /\ captures' = [captures EXCEPT ![k].pc = "setAsset",
                                    ![k].geolocation = outcome,
                                    ![k].gpsLocation = (outcome = "position")]
    /\ UNCHANGED <<engineVars, eval, user_settings, requests,
                   pendingSelectionResolve, pendingSelectionReject, timers,
                   overlayActive, authToken>>

\* After assetStorage.setAsset(asset): the draft is in the store, or the
\* write failed
SetAssetReturn(k, ok) ==
    /\ At(k, "setAsset")
    /\ IF ~ok
       THEN /\ Finish(k, Rejected("setAsset"))
            /\ UNCHANGED assets
       ELSE /\ captures' = [captures EXCEPT ![k].pc = "updateExtensionBadge",
                                            ![k].stored = TRUE]
            /\ assets' = [assets EXCEPT ![assetId(k)] = Draft]
            /\ UNCHANGED <<requests, pendingSelectionResolve,
                           pendingSelectionReject>>
    /\ UNCHANGED <<uploadQueue, isUploading, isPaused, upload_queue, drain,
                   restore, calls, ev, log, ops, popupVars, eval, user_settings,
                   timers, overlayActive, authToken>>

\* The auto-upload block queues the asset whatever the authentication
autoUploadsUnauthenticated == getSettings(user_settings).settings.autoUpload

\* The tests of the auto-upload block: settings.autoUpload, and auth from
\* isAuthenticated() or from the stored token
autoUploads == getSettings(user_settings).settings.autoUpload /\ authToken

\* After showCaptureNotification and updateExtensionBadge: with autoUpload
\* and an authenticated user, addToQueue(asset) up to its await; otherwise
\* the capture is over
UpdateExtensionBadgeReturn(k) ==
    /\ At(k, "updateExtensionBadge")
    /\ IF autoUploads
       THEN /\ addToQueue(assetId(k), FALSE)
            /\ IF assetId(k) \in Range(uploadQueue)
               THEN Finish(k, Captured)
               ELSE Goto(k, "addToQueue")
       ELSE /\ Finish(k, Captured)
            /\ UNCHANGED <<uploadQueue, isUploading, isPaused, assets,
                           upload_queue, drain, restore, calls, ev, log,
                           popupVars>>
    /\ UNCHANGED <<ops, eval, user_settings, timers, overlayActive, authToken>>

\* handleAssetUpload after getAsset: no record throws; otherwise
\* addToQueue(asset, true) up to its await
GetAssetReturn(r) ==
    /\ r \in DOMAIN requests
    /\ requests[r].pc = "getAsset"
    /\ IF assets[requests[r].id] = Absent
       THEN /\ requests' = settle(requests, r, Rejected("Asset not found"))
            /\ UNCHANGED <<uploadQueue, isUploading, isPaused, assets,
                           upload_queue, drain, restore, calls, ev, log,
                           popupVars>>
       ELSE /\ addToQueue(requests[r].id, TRUE)
            /\ requests' = IF requests[r].id \in Range(uploadQueue)
                           THEN settle(requests, r, Captured)
                           ELSE [requests EXCEPT ![r].pc = "addToQueue"]
    /\ UNCHANGED <<ops, eval, user_settings, captures, pendingSelectionResolve,
                   pendingSelectionReject, timers, overlayActive, authToken>>

\* The requests waiting in handleAssetUpload for addToQueue of this asset
AwaitingAddToQueue(id) ==
    {r \in DOMAIN requests : requests[r].pc = "addToQueue" /\ requests[r].id = id}

\* addToQueue returns to the handler that awaits it: a capture (automatic
\* upload) or handleAssetUpload (manual retry)
AddToQueueResume ==
    /\ afterSaveQueue("addToQueue")
    /\ LET c == Head(calls) IN
       IF c.manual
       THEN /\ AwaitingAddToQueue(c.ids[1]) # {}
            /\ LET r == CHOOSE x \in AwaitingAddToQueue(c.ids[1]) :
                            \A y \in AwaitingAddToQueue(c.ids[1]) : x <= y IN
               requests' = settle(requests, r, Captured)
            /\ UNCHANGED <<captures, pendingSelectionResolve,
                           pendingSelectionReject>>
       ELSE \E k \in DOMAIN captures :
                /\ captures[k].pc = "addToQueue"
                /\ assetId(k) = c.ids[1]
                /\ Finish(k, Captured)
    /\ UNCHANGED <<eval, user_settings, timers, overlayActive, authToken>>

\* The settings a user has saved: automatic upload and location vary
CaptureSettings ==
    {[DEFAULT_SETTINGS EXCEPT !.autoUpload = u, !.includeLocation = l] :
        u \in BOOLEAN, l \in BOOLEAN}

\* A running worker with an empty asset store, the engine idle after its
\* start-up restoration, a user who is signed in or not
InitCapture ==
    /\ uploadQueue = <<>>
    /\ isUploading = FALSE
    /\ isPaused = FALSE
    /\ assets = [id \in Ids |-> Absent]
    /\ upload_queue = <<>>
    /\ drain = NoDrain
    /\ restore = NoRestore
    /\ calls = <<>>
    /\ ev = NoEvent
    /\ log = LogOff
    /\ ops = 0
    /\ insufficient_credits_dismissed = FALSE
    /\ showInsufficientCreditsNotification = FALSE
    /\ eval = NoEval
    /\ \E saved \in CaptureSettings : user_settings = JSON_stringify(saved)
    /\ requests = <<>>
    /\ captures = <<>>
    /\ pendingSelectionResolve = Null
    /\ pendingSelectionReject = Null
    /\ timers = {}
    /\ overlayActive = FALSE
    /\ authToken \in BOOLEAN

Keys == {"Escape", "Enter"}
Modes == {"visible", "selection"}

NextCapture ==
    \/ \E mode \in Modes : CaptureScreenshot(mode)
    \/ \E id \in Ids : UploadAsset(id)
    \/ \E r \in 1..MaxRequests, ok \in BOOLEAN : TabsQueryReturn(r, ok)
    \/ \E r \in 1..MaxRequests, ok \in BOOLEAN : ExecuteScriptReturn(r, ok)
    \/ \E r \in 1..MaxRequests : SelectionTimeout(r)
    \/ \E width \in Sizes, height \in Sizes : MouseUp(width, height)
    \/ \E key \in Keys : KeyDown(key)
    \/ \E k \in 1..MaxRequests, ok \in BOOLEAN : SelectionTabsQueryReturn(k, ok)
    \/ \E k \in 1..MaxRequests, ok \in BOOLEAN : CaptureVisibleTabReturn(k, ok)
    \/ \E k \in 1..MaxRequests, ok \in BOOLEAN : AddWatermarkReturn(k, ok)
    \/ \E k \in 1..MaxRequests, outcome \in GeolocationOutcomes :
           GetGeolocationReturn(k, outcome)
    \/ \E k \in 1..MaxRequests, ok \in BOOLEAN : SetAssetReturn(k, ok)
    \/ \E k \in 1..MaxRequests : UpdateExtensionBadgeReturn(k)
    \/ \E r \in 1..MaxRequests : GetAssetReturn(r)
    \/ AddToQueueResume
    \/ DrainStep

SpecCapture == InitCapture /\ [][NextCapture]_vars

CaptureTypeOK ==
    /\ Len(requests) <= MaxRequests
    /\ Len(captures) <= MaxRequests
    /\ pendingSelectionResolve = pendingSelectionReject

\* What the worker does without the user: continuations of settled awaits,
\* timers, the engine's steps
WorkerStep ==
    \/ \E r \in 1..MaxRequests, ok \in BOOLEAN : TabsQueryReturn(r, ok)
    \/ \E r \in 1..MaxRequests, ok \in BOOLEAN : ExecuteScriptReturn(r, ok)
    \/ \E r \in 1..MaxRequests : SelectionTimeout(r)
    \/ \E k \in 1..MaxRequests, ok \in BOOLEAN : SelectionTabsQueryReturn(k, ok)
    \/ \E k \in 1..MaxRequests, ok \in BOOLEAN : CaptureVisibleTabReturn(k, ok)
    \/ \E k \in 1..MaxRequests, ok \in BOOLEAN : AddWatermarkReturn(k, ok)
    \/ \E k \in 1..MaxRequests, outcome \in GeolocationOutcomes :
           GetGeolocationReturn(k, outcome)
    \/ \E k \in 1..MaxRequests, ok \in BOOLEAN : SetAssetReturn(k, ok)
    \/ \E k \in 1..MaxRequests : UpdateExtensionBadgeReturn(k)
    \/ \E r \in 1..MaxRequests : GetAssetReturn(r)
    \/ AddToQueueResume
    \/ DrainStep

\* The worker is not stopped: every await settles and its continuation runs,
\* every armed timer fires.  The user need not act.
SpecCaptureLive == InitCapture /\ [][NextCapture]_vars /\ WF_vars(WorkerStep)

\* The request that waits for the selection gets this cancellation as its
\* capture result and the cancelled response, and the step starts no capture
\* and stores no asset
CancelledWith(reason) ==
    /\ captures' = captures
    /\ assets' = assets
    /\ uploadQueue' = uploadQueue
    /\ pendingSelectionResolve # Null =>
         LET r == pendingSelectionResolve IN
         /\ requests[r].result.state = "pending"
         /\ requests'[r].result =
                [state |-> "fulfilled", cancelled |-> TRUE, reason |-> reason]
         /\ requests'[r].responses =
                <<[success |-> FALSE, cancelled |-> TRUE, error |-> "none"]>>

\* C23: a selection whose width or height is below 10 pixels gives the
\* waiting capture request the result cancelled with reason "Selection too
\* small" and the cancelled response (not an error), and no capture is
\* started and no asset stored; Escape gives cancelled as well; a selection
\* of at least 10 by 10 cancels nothing and its capture starts.
C23_SmallSelectionCancelled ==
    [][ /\ \A width \in Sizes, height \in Sizes :
             MouseUp(width, height) =>
                 IF width < 10 \/ height < 10
                 THEN CancelledWith("Selection too small")
                 ELSE /\ requests' = requests
                      /\ Len(captures') = Len(captures) + 1
                      /\ captures'[Len(captures')].mode = "selection"
        /\ KeyDown("Escape") => CancelledWith("User cancelled") ]_vars

\* A request was cancelled because the selection was too small
C23_Witness ==
    \E r \in DOMAIN requests :
        /\ requests[r].mode = "selection"
        /\ requests[r].result.cancelled
        /\ requests[r].result.reason = "Selection too small"
        /\ requests[r].responses # <<>>

\* Request r has been sent one response
Answered(r) == r \in DOMAIN requests /\ Len(requests[r].responses) = 1

\* C21: every CAPTURE_SCREENSHOT and UPLOAD_ASSET request receives exactly
\* one response: never more than one, and eventually one, whatever the
\* interleaving of requests, selection results and timers.
C21_ExactlyOneResponse ==
    /\ [](\A r \in DOMAIN requests : Len(requests[r].responses) <= 1)
    /\ \A r \in 1..MaxRequests :
           [](r \in DOMAIN requests => <>Answered(r))

\* C22: when the 60-second timer of a selection-mode request fires and the
\* request has not been answered, it is answered with the error "Selection
\* timed out"; a request that has been answered is left as it is.
C22_TimerAnswersItsRequest ==
    [][\A r \in DOMAIN requests :
           SelectionTimeout(r) =>
               /\ requests[r].result.state = "pending" =>
                      /\ requests'[r].result.state = "rejected"
                      /\ requests'[r].result.reason = "Selection timed out"
                      /\ Len(requests'[r].responses) = 1
               /\ \A q \in DOMAIN requests :
                      requests[q].result.state # "pending" =>
                          requests'[q] = requests[q]]_vars

\* This step appends the asset of capture k to the engine's queue on behalf
\* of the capture (addToQueue without the manual-retry flag)
HandsOff(k) ==
    /\ Len(calls') = Len(calls) + 1
    /\ calls'[Len(calls')].op = "addToQueue"
    /\ calls'[Len(calls')].ids = <<assetId(k)>>
    /\ ~calls'[Len(calls')].manual

\* The user has sent an UPLOAD_ASSET request for this asset
UploadRequested(id) ==
    \E r \in DOMAIN requests :
        requests[r].type = "UPLOAD_ASSET" /\ requests[r].id = id

\* The stored settings text has the member "autoUpload": true
AutoUploadSaved ==
    \E token \in Range(user_settings) :
        token.t = "member" /\ token.k = "autoUpload" /\ token.lit = "true"

\* C24: the step that stores the asset of a capture stores it with status
\* draft and does not enqueue it; a capture hands its asset to the engine
\* only after it has stored it, and only with auto-upload enabled and the
\* user authenticated; otherwise, unless the user asks for the upload, the
\* asset stays draft and is neither in the queue nor in the persisted list.
C24_DraftPersistedBeforeHandOff ==
    /\ [][\A k \in DOMAIN captures :
              /\ SetAssetReturn(k, TRUE) =>
                     /\ assets'[assetId(k)].status = "draft"
                     /\ ~HandsOff(k)
                     /\ uploadQueue' = uploadQueue
              /\ HandsOff(k) =>
                     /\ captures[k].stored
                     /\ AutoUploadSaved
                     /\ authToken]_vars
    /\ [](\A k \in DOMAIN captures :
              (/\ captures[k].stored
               /\ ~(AutoUploadSaved /\ authToken)
               /\ ~UploadRequested(assetId(k)))
              => /\ assets[assetId(k)].status = "draft"
                 /\ assetId(k) \notin Range(uploadQueue)
                 /\ assetId(k) \notin Range(upload_queue))

\* A capture has stored its draft and handed it to the engine, which has
\* it in its queue and in the persisted list
C24_Witness ==
    \E k \in DOMAIN captures :
        /\ captures[k].stored
        /\ captures[k].pc = "addToQueue"
        /\ assetId(k) \in Range(uploadQueue)
        /\ assetId(k) \in Range(upload_queue)
        /\ assets[assetId(k)].status = "draft"

\* The request a capture answers to: the one that called it (visible mode)
\* or the one whose callback is stored (handleSelectionComplete), if any
Initiator(k) ==
    IF captures[k].mode = "visible" THEN captures[k].req
    ELSE pendingSelectionReject

\* In this step request r is answered with an error
AnsweredWithError(r) ==
    /\ requests[r].result.state = "pending"
    /\ requests'[r].result.state = "rejected"
    /\ Len(requests'[r].responses) = 1
    /\ ~requests'[r].responses[1].success
    /\ ~requests'[r].responses[1].cancelled
    /\ requests'[r].responses[1].error # "none"

GeolocationFailed(k) == captures[k].geolocation \in {"null", "error", "raised"}

\* C26: a geolocation lookup that is denied, unavailable, timed out or that
\* raises leaves the capture running, in visible and in selection mode: the
\* asset has no gpsLocation, the capture goes on to store its draft, and
\* when it ends after storing, the request it answers to gets the success
\* response.
C26_GeolocationFailureNeverAborts ==
    /\ [][\A k \in DOMAIN captures :
              /\ \A outcome \in {"null", "error", "raised"} :
                     GetGeolocationReturn(k, outcome) =>
                         /\ captures'[k].pc = "setAsset"
                         /\ ~captures'[k].gpsLocation
                         /\ requests' = requests
              /\ (/\ GeolocationFailed(k)
                  /\ captures[k].stored
                  /\ captures[k].pc # "done"
                  /\ captures'[k].pc = "done") =>
                     LET r == IF captures[k].mode = "visible" THEN captures[k].req
                              ELSE pendingSelectionResolve IN
                     r # Null =>
                         /\ requests[r].result.state = "pending"
                         /\ requests'[r].result.state = "fulfilled"
                         /\ ~requests'[r].result.cancelled
                         /\ requests'[r].responses =
                                <<[success |-> TRUE, cancelled |-> FALSE,
                                   error |-> "none"]>>]_vars
    /\ [](\A k \in DOMAIN captures :
              GeolocationFailed(k) =>
                  /\ ~captures[k].gpsLocation
                  /\ captures[k].pc = "done" /\ ~captures[k].stored =>
                         assets[assetId(k)].status = "absent")

\* A selection-mode capture whose geolocation lookup raised has stored its
\* draft and its request has the success response
C26_Witness ==
    \E k \in DOMAIN captures, r \in DOMAIN requests :
        /\ captures[k].mode = "selection"
        /\ captures[k].geolocation = "raised"
        /\ captures[k].stored
        /\ captures[k].pc = "done"
        /\ assets[assetId(k)].status = "draft"
        /\ requests[r].mode = "selection"
        /\ requests[r].result.state = "fulfilled"
        /\ ~requests[r].result.cancelled

\* C39: the timer of a selection request that has been answered already
\* (completed, cancelled or failed) rejects no other request: when it fires,
\* every request is left as it is.
C39_LeftoverTimerRejectsNothing ==
    [][\A q \in DOMAIN requests :
           (SelectionTimeout(q) /\ requests[q].result.state # "pending")
               => requests' = requests]_vars

\* C40: handleSelectionComplete stores and enqueues an asset only when a
\* selection request was waiting as the SELECTION_COMPLETE message arrived:
\* the asset of a capture started with no request waiting is never in the
\* store, in the queue or in the persisted list.
C40_NoAssetWithoutPendingRequest ==
    \A k \in DOMAIN captures :
        (captures[k].mode = "selection" /\ captures[k].req = Null) =>
            /\ ~captures[k].stored
            /\ assets[assetId(k)].status = "absent"
            /\ assetId(k) \notin Range(uploadQueue)
            /\ assetId(k) \notin Range(upload_queue)

\* The ids of a list, in its order and each once, that are not in a set
RECURSIVE NewIds(_, _)
NewIds(batch, seen) ==
    IF batch = <<>> THEN <<>>
    ELSE IF Head(batch) \in seen THEN NewIds(Tail(batch), seen)
    ELSE <<Head(batch)>> \o NewIds(Tail(batch), seen \cup {Head(batch)})

\* C33: addMultipleToQueue appends, in argument order and each once, exactly
\* the assets whose id is not in the queue, and writes the ID list once, after
\* all insertions (its return writes nothing more); when nothing was added
\* it writes nothing, awaits nothing, starts no drain step and leaves queue
\* and flags as they were.
C33_BatchEnqueueIdempotent ==
    /\ [][\A batch \in Batches, m \in BOOLEAN :
              AddMultipleToQueue(batch, m) =>
                  LET new == NewIds(batch, Range(uploadQueue)) IN
                  /\ uploadQueue' = uploadQueue \o new
                  /\ IF new # <<>>
                     THEN /\ upload_queue' = uploadQueue'
                          /\ Len(calls') = Len(calls) + 1
                     ELSE /\ upload_queue' = upload_queue
                          /\ calls' = calls
                  /\ drain' = drain
                  /\ isUploading' = isUploading
                  /\ isPaused' = isPaused]_vars
    /\ [][AddMultipleToQueueReturn => upload_queue' = upload_queue]_vars

\* A call with two assets, given in the order opposite to the store's, waits
\* for its one write: both are queued and persisted in argument order
C33_Witness ==
    /\ calls # <<>>
    /\ Head(calls).op = "addMultipleToQueue"
    /\ Head(calls).ids = <<IdOrder[2], IdOrder[1]>>
    /\ uploadQueue = <<IdOrder[2], IdOrder[1]>>
    /\ upload_queue = <<IdOrder[2], IdOrder[1]>>

\* C34: within one engine instance the pause flag changes only in
\* setPaused, in a failure classified as balance exhaustion (set) and in the
\* return of a manual-retry enqueue (cleared).  A non-manual addToQueue on a
\* paused engine appends and persists the asset, and neither the call nor
\* its return clears the flag or starts a drain step.
C34_PauseFlagFrame ==
    [][/\ (isPaused' # isPaused /\ ~Restart) =>
              \/ \E p \in BOOLEAN : SetPaused(p)
              \/ /\ drain.pc \in {"updateUploading", "post", "updateUploaded"}
                 /\ drain'.pc = "clearDismissed"
                 /\ isPaused'
              \/ /\ calls # <<>>
                 /\ Head(calls).manual
                 /\ calls' = Tail(calls)
                 /\ ~isPaused'
       /\ \A id \in Ids :
              (isPaused /\ AddToQueue(id, FALSE)) =>
                  /\ id \in Range(uploadQueue')
                  /\ id \in Range(uploadQueue) \/ upload_queue' = uploadQueue'
                  /\ isPaused'
                  /\ drain' = drain
       /\ (isPaused /\ AddToQueueReturn /\ ~Head(calls).manual) =>
              /\ isPaused'
              /\ drain' = drain
              /\ isUploading' = isUploading
              /\ uploadQueue' = uploadQueue]_vars

\* A non-manual addToQueue has returned on a paused engine: the asset waits
\* in the queue and in the persisted list, nothing is in flight
C34_Witness ==
    /\ isPaused
    /\ ev = "addToQueue"
    /\ uploadQueue # <<>>
    /\ upload_queue = uploadQueue
    /\ ~isUploading
    /\ drain = NoDrain

\* The remote call, or the store update before or after it, of an asset's
\* drain step is outstanding
InFlight(id) ==
    /\ drain.asset = id
    /\ drain.pc \in {"updateUploading", "post", "updateUploaded"}

\* C35: addToQueue with the id of the asset whose upload is in flight does
\* not append it: the in-flight asset counts as present.
C35_InFlightCountsAsPresent ==
    [][\A id \in Ids, m \in BOOLEAN :
           (InFlight(id) /\ AddToQueue(id, m)) => uploadQueue' = uploadQueue]_vars

\* C36: when restoreQueue finishes, every asset an addToQueue put in the
\* in-memory queue while it ran is still in the queue or is the one whose
\* drain step starts.
C36_RestoreKeepsEnqueued ==
    [][(restore.pc = "getAsset" /\ restore'.pc = "done") =>
           \A id \in Range(uploadQueue) :
               id \in Range(uploadQueue') \/ drain'.asset = id]_vars

\* An engine whose start-up restoration is over and whose first drain step
\* waits for the remote call: addToQueue of the first asset has persisted the
\* list and returned, and updateAssetStatusToUploading has recorded the status.
InitInFlight ==
    /\ uploadQueue = <<>>
    /\ isUploading = TRUE
    /\ isPaused = FALSE
    /\ assets = [id \in Ids |-> IF id = IdOrder[1] THEN Uploading ELSE Draft]
    /\ upload_queue = <<IdOrder[1]>>
    /\ drain = [pc |-> "post", asset |-> IdOrder[1], errorType |-> "none"]
    /\ restore = NoRestore
    /\ calls = <<>>
    /\ ev = NoEvent
    /\ log = LogOff
    /\ ops = 0
    /\ insufficient_credits_dismissed = FALSE
    /\ showInsufficientCreditsNotification = FALSE
    /\ AuxInit

SpecInFlight == InitInFlight /\ [][Next]_vars

\* C37: when the process restarts while the remote call of an asset is
\* outstanding, the new engine restores a list that names the asset.
C37_RestartRestoresInFlight ==
    [][(Restart /\ drain.pc = "post") =>
           drain.asset \in Range(restore'.ids)]_vars

\* C38: no drain step starts for an asset whose record already carries
\* status uploaded, that is, whose remote registration has succeeded.
C38_RegisteredAtMostOnce ==
    [][(drain.pc # "updateUploading" /\ drain'.pc = "updateUploading") =>
           assets[drain'.asset].status # "uploaded"]_vars

\* The engine instance is the same before and after the step, and its drain
\* task has moved
DrainMoves == drain' # drain /\ ~Restart

\* C31: in a drain step the effects come in this order: status uploading is
\* in the asset store when progress (uploading, 0) is emitted, and the remote
\* call is issued after it; status uploaded is in the store when progress
\* (uploaded, 1) is emitted, which is after the remote call has returned; the
\* record is gone from the store when the completion is emitted, and the
\* persisted ID list is written after that, still naming the asset until
\* then unless another call rewrote it.
C31_OrderOfEffects ==
    /\ [][ev' = emitProgress("uploading", 0) =>
              /\ drain.pc = "updateUploading" /\ drain'.pc = "post"
              /\ assets'[drain.asset].status \in {"uploading", "absent"}]_vars
    /\ [][(DrainMoves /\ drain'.pc = "updateUploaded") =>
              (drain.pc = "post" /\ ev' # emitProgress("uploaded", 1))]_vars
    /\ [][ev' = emitProgress("uploaded", 1) =>
              /\ drain.pc = "updateUploaded" /\ drain'.pc = "delete"
              /\ assets'[drain.asset].status \in {"uploaded", "absent"}]_vars
    /\ [][ev' = emitCompletion =>
              /\ drain.pc = "delete" /\ drain'.pc = "saveQueue"
              /\ assets'[drain.asset] = Absent
              /\ upload_queue' = upload_queue]_vars
    /\ [][(DrainMoves /\ drain.pc = "saveQueue") =>
              /\ upload_queue' = saveQueue(uploadQueue)
              /\ assets' = assets
              /\ ev' \notin {emitCompletion, emitProgress("uploaded", 1)}]_vars

\* The completion of an asset has just been emitted: its record is deleted
\* and the persisted list, not yet rewritten, still names it
C31_Witness ==
    /\ ev = emitCompletion
    /\ drain.pc = "saveQueue"
    /\ assets[drain.asset] = Absent
    /\ drain.asset \in Range(upload_queue)

\* ------------------------------------------------- progress simulation
\* The Number values of the simulated progress.  A Number is an IEEE 754
\* binary64 value: here zero, or a positive normal value m * 2^(e - 52) with
\* 2^52 <= m < 2^53.  The significand m is held as four limbs of 16 bits,
\* most significant first, so that every intermediate value fits an integer
\* of the model checker.
Precision == 53
LimbBase == 65536

Pow2(n) == 2 ^ n

NumberZero == [t |-> "number", e |-> 0, m |-> <<0, 0, 0, 0>>]
NumberOne == [t |-> "number", e |-> 0, m |-> <<Pow2(Precision - 49), 0, 0, 0>>]
\* asset.metadata.uploadProgress of an asset that has never been uploaded
NoProgress == [t |-> "undefined", e |-> 0, m |-> <<0, 0, 0, 0>>]

\* a + b of two limb sequences whose sum fits four limbs
AddLimbs(a, b) ==
    LET s4 == a[4] + b[4]
        s3 == a[3] + b[3] + (s4 \div LimbBase)
        s2 == a[2] + b[2] + (s3 \div LimbBase)
        s1 == a[1] + b[1] + (s2 \div LimbBase)
    IN  <<s1, s2 % LimbBase, s3 % LimbBase, s4 % LimbBase>>

\* a * 2^d for 0 <= d < 16, the product fitting four limbs
MulPow2(a, d) ==
    LET t(i) == a[i] * Pow2(d) IN
    <<(t(1) % LimbBase) + (t(2) \div LimbBase),
      (t(2) % LimbBase) + (t(3) \div LimbBase),
      (t(3) % LimbBase) + (t(4) \div LimbBase),
      t(4) % LimbBase>>

\* a \div 2^d for 0 <= d < 16
DivPow2(a, d) ==
    LET up(i) == (a[i] % Pow2(d)) * Pow2(16 - d) IN
    <<a[1] \div Pow2(d),
      (a[2] \div Pow2(d)) + up(1),
      (a[3] \div Pow2(d)) + up(2),
      (a[4] \div Pow2(d)) + up(3)>>

\* The number of bits of a positive integer below 2^16
BitLength(n) == CHOOSE k \in 1..16 : Pow2(k - 1) <= n /\ n < Pow2(k)

\* The Number nearest to sum * 2^(e - 52), ties to even, for an integer sum
\* of at least 2^52 held in four limbs, by the value
\* of the bits dropped.  roundUp is the caller's decision for a sum that
\* needs no shift (the remainder of its division, compared with the divisor).
RoundToNearestEven(sum, e, roundUp) ==
    LET shift == 48 + BitLength(sum[1]) - Precision
        q == DivPow2(sum, shift)
        rem == sum[4] % Pow2(shift)
        half == IF shift = 0 THEN 0 ELSE Pow2(shift - 1)
        up == IF shift = 0
              THEN roundUp
              ELSE rem > half \/ (rem = half /\ q[4] % 2 = 1)
        r == IF up THEN AddLimbs(q, <<0, 0, 0, 1>>) ELSE q
    IN  IF r[1] = Pow2(Precision - 48)
        THEN [t |-> "number", e |-> e + shift + 1, m |-> DivPow2(r, 1)]
        ELSE [t |-> "number", e |-> e + shift, m |-> r]

\* The number of doublings of p that reach q
RECURSIVE LeadingShift(_, _)
LeadingShift(p, q) == IF p >= q THEN 0 ELSE 1 + LeadingShift(2 * p, q)

\* The Number a decimal literal p/q (0 < p < q < 2^12) denotes: the binary64
\* value nearest to it, by long division of p * 2^k * 2^52 by q, limb by limb
NumericLiteral(p, q) ==
    LET k == LeadingShift(p, q)
        c1 == p * Pow2(k) * Pow2(Precision - 49)
        c2 == (c1 % q) * LimbBase
        c3 == (c2 % q) * LimbBase
        c4 == (c3 % q) * LimbBase
        quotient == <<c1 \div q, c2 \div q, c3 \div q, c4 \div q>>
        r == c4 % q
    IN  RoundToNearestEven(quotient, -k,
                           2 * r > q \/ (2 * r = q /\ quotient[4] % 2 = 1))

\* x + y of two Numbers that are zero or positive and whose exponents differ
\* by at most 10 (the sums of tenths below 2 do): the exact sum, rounded
NumberAdd(x, y) ==
    IF x = NumberZero THEN y
    ELSE IF y = NumberZero THEN x
    ELSE LET hi == IF x.e >= y.e THEN x ELSE y
             lo == IF x.e >= y.e THEN y ELSE x
         IN  RoundToNearestEven(AddLimbs(MulPow2(hi.m, hi.e - lo.e), lo.m),
                                lo.e, FALSE)

\* a < b of two limb sequences
LimbsLess(a, b) ==
    \E i \in 1..4 :
        /\ a[i] < b[i]
        /\ \A j \in 1..(i - 1) : a[j] = b[j]

\* x < y of two Numbers that are zero or positive
NumberLess(x, y) ==
    IF x = NumberZero THEN y # NumberZero
    ELSE IF y = NumberZero THEN FALSE
    ELSE IF x.e # y.e THEN x.e < y.e
    ELSE LimbsLess(x.m, y.m)

\* value || 0 for a value that is undefined or a Number
OrZero(value) ==
    IF value.t = "undefined" \/ value = NumberZero THEN NumberZero ELSE value

\* One asset's upload attempts with the asset store answering every update:
\* eval holds the position in uploadAsset (pc), the asset's in-memory
\* metadata.uploadProgress, whether the interval of startProgressSimulation
\* is set, the number of the attempt, and the UploadProgress last handed to
\* emitProgress (status none before the first).
MaxAttempts == 3

UploadProgress(status, progress) == [status |-> status, progress |-> progress]

InitProgress ==
    /\ EngineIdle
    /\ user_settings = JSON_stringify(DEFAULT_SETTINGS)
    /\ eval = [f |-> "uploadAsset", pc |-> "updateUploading", attempt |-> 1,
               interval |-> FALSE, uploadProgress |-> NoProgress,
               event |-> UploadProgress("none", NumberZero)]

\* updateAssetStatusToUploading returns: progress 0 is emitted, the interval
\* is set, the POST is issued
StartProgressSimulation ==
    /\ eval.f = "uploadAsset"
    /\ eval.pc = "updateUploading"
    /\ eval' = [eval EXCEPT !.pc = "post", !.interval = TRUE,
                            !.event = UploadProgress("uploading", NumberZero)]
    /\ UNCHANGED <<engineVars, user_settings, workerVars>>

\* The interval callback, every 500 ms while the interval is set
ProgressTick ==
    /\ eval.f = "uploadAsset"
    /\ eval.interval
    /\ LET currentProgress == OrZero(eval.uploadProgress)
           newProgress == NumberAdd(currentProgress, NumericLiteral(1, 10))
       IN  IF NumberLess(currentProgress, NumericLiteral(9, 10))
           THEN eval' = [eval EXCEPT
                           !.uploadProgress = newProgress,
                           !.event = UploadProgress("uploading", newProgress)]
           ELSE eval' = eval
    /\ UNCHANGED <<engineVars, user_settings, workerVars>>

\* postWithAuth resolves: clearInterval; handleUploadSuccess sets
\* uploadProgress 1 and issues updateAsset(uploaded)
ProgressPostSuccess ==
    /\ eval.f = "uploadAsset"
    /\ eval.pc = "post"
    /\ eval' = [eval EXCEPT !.pc = "updateUploaded", !.interval = FALSE,
                            !.uploadProgress = NumberOne]
    /\ UNCHANGED <<engineVars, user_settings, workerVars>>

\* postWithAuth rejects: clearInterval in the catch; handleUploadError keeps
\* the metadata, adds the error and issues updateAsset(failed)
ProgressPostError ==
    /\ eval.f = "uploadAsset"
    /\ eval.pc = "post"
    /\ eval' = [eval EXCEPT !.pc = "updateFailed", !.interval = FALSE]
    /\ UNCHANGED <<engineVars, user_settings, workerVars>>

\* handleUploadSuccess resumes from updateAsset: progress (uploaded, 1)
ProgressUploaded ==
    /\ eval.f = "uploadAsset"
    /\ eval.pc = "updateUploaded"
    /\ eval' = [eval EXCEPT !.pc = "uploaded",
                            !.event = UploadProgress("uploaded", NumberOne)]
    /\ UNCHANGED <<engineVars, user_settings, workerVars>>

\* handleUploadError resumes from updateAsset: progress (failed, 0)
ProgressFailed ==
    /\ eval.f = "uploadAsset"
    /\ eval.pc = "updateFailed"
    /\ eval' = [eval EXCEPT !.pc = "failed",
                            !.event = UploadProgress("failed", NumberZero)]
    /\ UNCHANGED <<engineVars, user_settings, workerVars>>

\* retryFailedUploads reads the failed asset back, with the metadata the
\* failed attempt stored, and its drain step issues updateAsset(uploading)
ProgressRetry ==
    /\ eval.f = "uploadAsset"
    /\ eval.pc = "failed"
    /\ eval.attempt < MaxAttempts
    /\ eval' = [eval EXCEPT !.pc = "updateUploading", !.attempt = @ + 1]
    /\ UNCHANGED <<engineVars, user_settings, workerVars>>

NextProgress ==
    \/ StartProgressSimulation
    \/ ProgressTick
    \/ ProgressPostSuccess
    \/ ProgressPostError
    \/ ProgressUploaded
    \/ ProgressFailed
    \/ ProgressRetry

SpecProgress == InitProgress /\ [][NextProgress]_vars

\* x <= y of two Numbers that are zero or positive
NumberAtMost(x, y) == ~NumberLess(y, x)

\* C32: the first progress event of an attempt is (uploading, 0); the event
\* that ends it is (uploaded, 1) or (failed, 0); every event between them
\* has status uploading and progress at most 0.9; the interval is set only
\* while the remote call is outstanding, so no event follows the last one.
C32_ProgressEvents ==
    /\ [][(eval.pc = "updateUploading" /\ eval'.event # eval.event) =>
              eval'.event = UploadProgress("uploading", NumberZero)]_vars
    /\ [][(eval.pc = "post" /\ eval'.pc = "post" /\ eval'.event # eval.event) =>
              /\ eval'.event.status = "uploading"
              /\ NumberAtMost(eval'.event.progress, NumericLiteral(9, 10))]_vars
    /\ [][(eval.pc = "updateUploaded" /\ eval'.event # eval.event) =>
              eval'.event = UploadProgress("uploaded", NumberOne)]_vars
    /\ [][(eval.pc = "updateFailed" /\ eval'.event # eval.event) =>
              eval'.event = UploadProgress("failed", NumberZero)]_vars
    /\ [][eval.pc \in {"uploaded", "failed"} => eval'.event = eval.event]_vars
    /\ [](eval.interval => eval.pc = "post")

====
